---- MODULE Spec2Model ----
(***************************************************************************)
(* Model of the Tiered Knowledge Retrieval and Context-Assembly Engine     *)
(* (src/query/query.py): the connection pool of QuerySystem, the           *)
(* TimeoutHandler deadline guard, the query methods with their audit       *)
(* logging, the validators, the LIKE matching of query_by_tags and the     *)
(* relevance scorer.                                                       *)
(***************************************************************************)
EXTENDS Integers, Sequences, FiniteSets, TLC

(***************************************************************************)
(* Bounds of the model.                                                    *)
(***************************************************************************)
\* connections one Engine creates in a run
MaxHandles == 6
\* nested `with self._get_connection()` blocks one caller holds open
MaxNest == 6
\* failures the environment injects in a run (store errors, dead handles,
\* elapsed deadlines)
MaxFaults == 2
\* Engine calls the caller makes in a run
MaxCalls == 1
\* characters of a domain string that are drawn freely (the rest is padding)
MaxLen == 2
\* length of the tags and of the stored tags field that are drawn
MaxTagLen == 3
\* how far in the future and in the past creation times are drawn, in half days
MaxFutureHalfDays == 30
MaxAgeHalfDays == 16
\* how far below and above MIN_LIMIT and MAX_LIMIT the limits are drawn
LimitMargin == 2

(***************************************************************************)
(* Program constants.                                                      *)
(***************************************************************************)
MAX_DOMAIN_LENGTH == 100
MAX_TAG_COUNT == 50
MAX_TAG_LENGTH == 50
MIN_LIMIT == 1
MAX_LIMIT == 1000
MAX_CONNECTION_POOL_SIZE == 5

Threads == {1}
Handles == 1..MaxHandles

\* Exception kinds that travel up the Python stack.  "sqlite" is sqlite3.Error,
\* QS001..QS004 are the QuerySystemError subclasses, "other" any other Exception.
NoExc == "none"
ExcKinds == {"sqlite", "QS001", "QS002", "QS003", "QS004", "other"}

KnowledgeTables ==
    {"heuristics", "learnings", "decisions", "invariants", "assumptions",
     "spike_reports", "experiments", "ceo_reviews"}

VARIABLES
    pool,       \* self._connection_pool: the list of pooled connections
    hstate,     \* per connection: "unborn", "open" or "closed"
    sick,       \* open connections on which "SELECT 1" would raise sqlite3.Error
    tx,         \* per connection: rows inserted and not yet committed
    nextId,     \* number of connections created so far
    stack,      \* per thread: the active with-blocks and method activations
    exc,        \* per thread: the exception being propagated, or NoExc
    errored,    \* connections that were in a with-body when an exception hit it
    faults,     \* failures injected so far
    alarm,      \* a SIGALRM deadline is armed (signal.alarm is process-wide)
    kdb,        \* per knowledge table: its rows (1 = the rows the store holds)
    audit,      \* the committed rows of building_queries, oldest first
    calls,      \* Engine calls the caller has made
    lastRet,    \* per thread: the last Engine call that ended, or NoRet
    arg,        \* the arguments a pure function of the Engine is applied to
    ret,        \* what that function returned or raised; Pending before
    timer,      \* seconds until SIGALRM is delivered; 0 = no alarm pending
    run,        \* position of a timed run of guarded code
    decisions,  \* the rows of the decisions table, by id
    decisionSeq, \* the highest id the decisions table has handed out
    owner,      \* per connection: the thread that created it (0: none yet)
    assumptions, \* the rows of the assumptions table, by id
    manager,    \* the dashboard's ConnectionManager and the tasks using it
    monitor     \* the dashboard's monitor_changes task and the table it polls

\* the state of the hosts of the Engine: threads sharing it, and the dashboard
hostVars == <<owner, assumptions, manager, monitor>>

poolVars == <<pool, hstate, sick, tx, nextId, errored, faults>>
pureVars == <<arg, ret, timer, run, decisions, decisionSeq, hostVars>>
engineVars == <<alarm, kdb, audit, calls, lastRet, arg, ret, timer, run,
               decisions, decisionSeq, hostVars>>
vars == <<pool, hstate, sick, tx, nextId, stack, exc, errored, faults,
          alarm, kdb, audit, calls, lastRet, arg, ret, timer, run,
          decisions, decisionSeq, hostVars>>

Range(s) == {s[i] : i \in DOMAIN s}

(***************************************************************************)
(* Frames.  k = "conn" is a with-block the caller opened on                *)
(* _get_connection(); k = "call" is the activation of an Engine method m   *)
(* at position pc with input inp.  h is the frame's `conn` local (0 is     *)
(* None) and cpc the position inside the _get_connection generator: "none" *)
(* (not inside one), "enter" (raised before the yield), "body" (yielded to *)
(* the with-body), "rel_done" (appended or closed, the trailing _log_debug *)
(* still to run).  g: the frame is inside its `with TimeoutHandler`; out:  *)
(* what the try block and its except clauses decided; rd: the rows read so *)
(* far; lf: the audit insert failed; th: the connection the frame held     *)
(* when its deadline fired.  A call that ended is kept with what its try   *)
(* block left (out), what was fixed when its audit insert began or its     *)
(* finally block failed (decided) and what reached the caller (delivered). *)
(***************************************************************************)
Pending == [kind |-> "pending", val |-> <<>>]
Ok(v) == [kind |-> "ok", val |-> v]
Err(e) == [kind |-> e, val |-> <<>>]
NoRet == [m |-> "", decided |-> Pending, delivered |-> Pending, lf |-> FALSE, th |-> 0,
          out |-> Pending]

Frame(k, m, pc, inp) ==
    [k |-> k, m |-> m, pc |-> pc, inp |-> inp, h |-> 0, cpc |-> "none",
     g |-> FALSE, i |-> 1, out |-> Pending, rd |-> <<>>, lf |-> FALSE, th |-> 0]

Top(t) == stack[t][Len(stack[t])]
Depth(t) == Len(stack[t])
Below(t) == SubSeq(stack[t], 1, Len(stack[t]) - 1)
SetTop(t, f) == [stack EXCEPT ![t] = [@ EXCEPT ![Len(@)] = f]]
Pop(t) == [stack EXCEPT ![t] = Below(t)]
Push(t, f) == [stack EXCEPT ![t] = Append(@, f)]
Running(t) == exc[t] = NoExc
ConnDepth(t) == Cardinality({j \in DOMAIN stack[t] : stack[t][j].k = "conn"})
TopIs(t, k) == Depth(t) > 0 /\ Top(t).k = k

\* where the caller's own code runs: at top level or in the body of its with-block
AtCallerCode(t) ==
    /\ Running(t)
    /\ \/ Depth(t) = 0
       \/ TopIs(t, "conn") /\ Top(t).cpc = "body"

\* a probe that only looks at whether the connection was closed
ValidateConnectionOpenOnly(h) == hstate[h] = "open"

(***************************************************************************)
(* _validate_connection: "SELECT 1" succeeds on an open, healthy           *)
(* connection; on a closed one it raises sqlite3.ProgrammingError.         *)
(***************************************************************************)
ValidateConnection(h) == hstate[h] = "open" /\ h \notin sick

\* conn.close()
CloseIn(hs, h) == [hs EXCEPT ![h] = "closed"]

(***************************************************************************)
(* _get_connection up to its yield, run for frame f on top of the frames   *)
(* `below`.  A pooled connection is popped (the newest first) and probed:  *)
(* a live one is yielded, a dead one is closed and replaced by a new one;  *)
(* with an empty pool a new one is created.  _create_connection may raise  *)
(* DatabaseError, and then conn is None or the closed connection.          *)
(***************************************************************************)
GetConnectionEnter(t, below, f) ==
    LET popped == pool # <<>>
        old == IF popped THEN pool[Len(pool)] ELSE 0
        reuse == popped /\ ValidateConnection(old)
        hs == IF popped /\ ~reuse THEN CloseIn(hstate, old) ELSE hstate
    IN  /\ pool' = IF popped THEN SubSeq(pool, 1, Len(pool) - 1) ELSE pool
        /\ IF reuse
           THEN /\ stack' = [stack EXCEPT ![t] =
                                Append(below, [f EXCEPT !.h = old, !.cpc = "body"])]
                /\ UNCHANGED <<hstate, nextId, exc, faults>>
           ELSE \/ /\ nextId < MaxHandles
                   /\ nextId' = nextId + 1
                   /\ hstate' = [hs EXCEPT ![nextId + 1] = "open"]
                   /\ stack' = [stack EXCEPT ![t] =
                                Append(below, [f EXCEPT !.h = nextId + 1, !.cpc = "body"])]
                   /\ UNCHANGED <<exc, faults>>
                \/ /\ faults < MaxFaults
                   /\ faults' = faults + 1
                   /\ hstate' = hs
                   /\ exc' = [exc EXCEPT ![t] = "QS002"]
                   /\ stack' = [stack EXCEPT ![t] =
                                Append(below, [f EXCEPT !.h = old, !.cpc = "enter"])]
                   /\ UNCHANGED nextId
        /\ UNCHANGED <<sick, tx, errored>>

\* the caller opens `with self._get_connection() as conn:`
Acquire(t) ==
    /\ AtCallerCode(t)
    /\ ConnDepth(t) < MaxNest
    /\ GetConnectionEnter(t, stack[t], Frame("conn", "", "", ""))
    /\ UNCHANGED engineVars

\* the caller's with-body raises e
BodyRaises(t, e) ==
    /\ Running(t)
    /\ TopIs(t, "conn")
    /\ Top(t).cpc = "body"
    /\ faults < MaxFaults
    /\ faults' = faults + 1
    /\ exc' = [exc EXCEPT ![t] = e]
    /\ UNCHANGED <<pool, hstate, sick, tx, nextId, stack, errored>>
    /\ UNCHANGED engineVars

(***************************************************************************)
(* The Engine methods.  Each is described by what its code does, in order: *)
(* the parameters it validates before entering its TimeoutHandler, whether *)
(* it uses a TimeoutHandler, the statements and validations of its         *)
(* with-body, and whether it is wrapped in try/except/finally with a       *)
(* _log_query call in the finally block.                                   *)
(***************************************************************************)
Sel(tb) == [op |-> "select", a |-> tb]
Pragma(n) == [op |-> "pragma", a |-> n]
Val(param) == [op |-> "validate", a |-> param]

Methods ==
    {"query_by_domain", "query_by_tags", "query_recent", "get_active_experiments",
     "get_pending_ceo_reviews", "get_violations", "get_violation_summary",
     "get_decisions", "get_invariants", "get_assumptions",
     "get_challenged_assumptions", "get_spike_reports", "get_statistics",
     "validate_database", "build_context"}

MethodPre(m) ==
    CASE m = "query_by_domain" -> <<"domain", "limit">>
      [] m = "query_by_tags" -> <<"tags", "limit">>
      [] m = "query_recent" -> <<"limit", "query">>
      [] m \in {"get_decisions", "get_invariants", "get_assumptions",
                "get_spike_reports"} -> <<"limit">>
      [] m = "build_context" -> <<"query", "domain", "tags">>
      [] OTHER -> <<>>

MethodBody(m) ==
    CASE m = "query_by_domain" -> <<Sel("heuristics"), Sel("learnings")>>
      [] m = "query_by_tags" -> <<Sel("learnings")>>
      [] m = "query_recent" -> <<Sel("learnings")>>
      [] m = "get_active_experiments" -> <<Sel("experiments")>>
      [] m = "get_pending_ceo_reviews" -> <<Sel("ceo_reviews")>>
      [] m = "get_violations" -> <<Sel("violations")>>
      [] m = "get_violation_summary" ->
            <<Sel("violations"), Sel("violations"), Sel("violations"), Sel("violations")>>
      [] m = "get_decisions" ->
            <<Sel("sqlite_master"), Val("domain"), Sel("decisions")>>
      [] m = "get_invariants" ->
            <<Sel("sqlite_master"), Val("domain"), Sel("invariants")>>
      [] m = "get_assumptions" ->
            <<Sel("sqlite_master"), Val("domain"), Sel("assumptions")>>
      [] m = "get_challenged_assumptions" ->
            <<Sel("sqlite_master"), Val("domain"), Sel("assumptions")>>
      [] m = "get_spike_reports" ->
            <<Sel("sqlite_master"), Val("domain"), Val("tags"), Sel("spike_reports")>>
      [] m = "get_statistics" ->
            <<Sel("learnings"), Sel("learnings"), Sel("heuristics"), Sel("heuristics"),
              Sel("experiments"), Sel("ceo_reviews"), Sel("learnings"),
              Sel("heuristics"), Sel("experiments"), Sel("ceo_reviews"),
              Sel("violations"), Sel("violations")>>
      [] m = "validate_database" ->
            <<Pragma("integrity_check"), Pragma("foreign_key_check"),
              Sel("sqlite_master"), Sel("sqlite_master"), Sel("learnings"),
              Sel("heuristics"), Sel("experiments"), Sel("ceo_reviews")>>
      [] OTHER -> <<>>

MethodGuard(m) == m # "validate_database"

\* the methods whose body is try/except/finally with _log_query in the finally
MethodLogs(m) ==
    m \in {"query_by_domain", "query_by_tags", "query_recent",
           "get_active_experiments", "get_pending_ceo_reviews", "get_decisions",
           "get_invariants", "get_assumptions", "get_spike_reports", "build_context"}

\* the Engine calls build_context makes inside its TimeoutHandler, in order;
\* the filler tier's query_recent is made when remaining_tokens > 500
NestedCalls(inp) ==
    <<"query_recent", "query_by_domain", "query_by_tags", "get_decisions",
      "get_invariants", "get_invariants", "get_assumptions",
      "get_challenged_assumptions", "get_spike_reports">>
    \o (IF inp = "valid" THEN <<"query_recent">> ELSE <<>>)
    \o <<"get_active_experiments", "get_pending_ceo_reviews">>

\* the inputs a call is made with: all valid, or one parameter invalid;
\* build_context also without filler tier, and with None as its task
InputsOf(m) ==
    {"valid"} \cup Range(MethodPre(m))
    \cup {o.a : o \in {x \in Range(MethodBody(m)) : x.op = "validate"}}
    \cup (IF m = "build_context" THEN {"valid_no_filler", "task_none"} ELSE {})

\* the body of _log_query's with-block
LogScript == <<[op |-> "insert", a |-> "building_queries"], [op |-> "commit", a |-> ""]>>

\* the body of _record_system_metrics' with-block
MetricsScript ==
    <<Sel("heuristics"), [op |-> "metric", a |-> "avg_confidence"],
      Sel("confidence_updates"), [op |-> "metric", a |-> "validation_velocity"],
      Sel("heuristics"), [op |-> "metric", a |-> "contradiction_rate"],
      [op |-> "metric", a |-> "query_count"]>>

ScriptOf(f) ==
    CASE f.pc = "body" -> MethodBody(f.m)
      [] f.pc = "log" -> LogScript
      [] f.pc = "metrics" -> MetricsScript
      [] OTHER -> <<>>

\* a cap test that lets one connection too many in
UnderCapOffByOne(n) == n <= MAX_CONNECTION_POOL_SIZE

\* `if len(self._connection_pool) < self.MAX_CONNECTION_POOL_SIZE`
UnderCap(n) == n < MAX_CONNECTION_POOL_SIZE

(***************************************************************************)
(* _get_connection after its yield: the with-body ended normally.  The     *)
(* connection is appended to the pool when the pool is under its cap, else *)
(* it is closed.                                                           *)
(***************************************************************************)
BodyOver(f) ==
    /\ f.cpc = "body"
    /\ f.k = "call" => f.i > Len(ScriptOf(f))

Release(t) ==
    /\ Running(t)
    /\ Depth(t) > 0
    /\ BodyOver(Top(t))
    /\ IF UnderCap(Len(pool))
       THEN /\ pool' = Append(pool, Top(t).h)
            /\ UNCHANGED <<hstate, tx>>
       ELSE /\ hstate' = CloseIn(hstate, Top(t).h)
            /\ tx' = [tx EXCEPT ![Top(t).h] = <<>>]
            /\ UNCHANGED pool
    /\ stack' = SetTop(t, [Top(t) EXCEPT !.cpc = "rel_done"])
    /\ UNCHANGED <<sick, nextId, exc, errored, faults>>
    /\ UNCHANGED engineVars

\* the generator finishes and the caller's with-block is left
ReleaseDone(t) ==
    /\ Running(t)
    /\ TopIs(t, "conn")
    /\ Top(t).cpc = "rel_done"
    /\ stack' = Pop(t)
    /\ UNCHANGED <<pool, hstate, sick, tx, nextId, exc, errored, faults>>
    /\ UNCHANGED engineVars

(***************************************************************************)
(* The two except clauses of _get_connection.  Both roll the connection    *)
(* back and close it when conn is set; the first re-raises sqlite3.Error   *)
(* as DatabaseError, the second re-raises the exception as it is.          *)
(***************************************************************************)
\* handlers that close the connection on a store error only
HandlerClosesStoreOnly(e) == e = "sqlite"

HandlerCloses(e) == e \in ExcKinds
Reraised(e) == IF e = "sqlite" THEN "QS002" ELSE e

\* the connections after the handler ran for exception e in frame f
AfterHandler(f, e) ==
    IF f.cpc # "none" /\ f.h # 0 /\ HandlerCloses(e) THEN CloseIn(hstate, f.h) ELSE hstate
RolledBack(f) ==
    IF f.cpc # "none" /\ f.h # 0 THEN [tx EXCEPT ![f.h] = <<>>] ELSE tx
ErroredAfter(f) ==
    IF f.cpc = "body" /\ f.h # 0 THEN errored \cup {f.h} ELSE errored

\* a variant whose handler puts the connection back into the pool
PoolAfterHandlerRepools(f) ==
    IF f.cpc = "body" /\ f.h # 0 THEN Append(pool, f.h) ELSE pool

\* the pool after the handler ran in frame f: the exception is thrown into
\* the generator at the yield, so the append after the yield is skipped
PoolAfterHandler(f) == pool

\* an exception leaves a with-block of the caller
UnwindConn(t) ==
    /\ ~Running(t)
    /\ TopIs(t, "conn")
    /\ hstate' = AfterHandler(Top(t), exc[t])
    /\ tx' = RolledBack(Top(t))
    /\ errored' = ErroredAfter(Top(t))
    /\ exc' = [exc EXCEPT ![t] = Reraised(@)]
    /\ stack' = Pop(t)
    /\ pool' = PoolAfterHandler(Top(t))
    /\ UNCHANGED <<sick, nextId, faults>>
    /\ UNCHANGED engineVars

\* the caller catches the exception (in an enclosing with-body or at top level)
CallerCatches(t) ==
    /\ ~Running(t)
    /\ \/ Depth(t) = 0
       \/ TopIs(t, "conn") /\ Top(t).cpc = "body"
    /\ exc' = [exc EXCEPT ![t] = NoExc]
    /\ UNCHANGED <<pool, hstate, sick, tx, nextId, stack, errored, faults>>
    /\ UNCHANGED engineVars

\* cleanup(): close every pooled connection and clear the pool
Cleanup(t) ==
    /\ AtCallerCode(t)
    /\ pool # <<>>
    /\ hstate' = [h \in Handles |-> IF h \in Range(pool) THEN "closed" ELSE hstate[h]]
    /\ tx' = [h \in Handles |-> IF h \in Range(pool) THEN <<>> ELSE tx[h]]
    /\ pool' = <<>>
    /\ UNCHANGED <<sick, nextId, stack, exc, errored, faults>>
    /\ UNCHANGED engineVars

\* the store stops answering on a pooled connection
Degrade(h) ==
    /\ h \in Range(pool)
    /\ hstate[h] = "open"
    /\ h \notin sick
    /\ faults < MaxFaults
    /\ faults' = faults + 1
    /\ sick' = sick \cup {h}
    /\ UNCHANGED <<pool, hstate, tx, nextId, stack, exc, errored>>
    /\ UNCHANGED engineVars

MaxDecisions == 4

DecisionIds == 1..MaxDecisions

\* no row with this id
NoDecision == [status |-> "none", superseded_by |-> 0]

\* an empty assumptions table
NoAssumptions == <<>>

\* a ConnectionManager without sockets or tasks
NoManager == [active_connections |-> <<>>]

\* monitor_changes not started
NoMonitor == [pc |-> "off"]

\* no timed run of guarded code is in progress
NoRun == [pc |-> 0, done |-> 0, depth |-> 0, elapsed |-> 0]

\* the Engine after __init__: an empty pool, nothing running
Idle ==
    /\ pool = <<>>
    /\ hstate = [h \in Handles |-> "unborn"]
    /\ sick = {}
    /\ tx = [h \in Handles |-> <<>>]
    /\ nextId = 0
    /\ stack = [t \in Threads |-> <<>>]
    /\ exc = [t \in Threads |-> NoExc]
    /\ errored = {}
    /\ faults = 0
    /\ alarm = FALSE
    /\ kdb = [tb \in KnowledgeTables |-> 1]
    /\ audit = <<>>
    /\ calls = 0
    /\ lastRet = [t \in Threads |-> NoRet]
    /\ timer = 0
    /\ run = NoRun
    /\ decisions = [d \in DecisionIds |-> NoDecision]
    /\ decisionSeq = 0
    /\ owner = [h \in Handles |-> 0]
    /\ assumptions = NoAssumptions
    /\ manager = NoManager
    /\ monitor = NoMonitor

NoArg == [fn |-> "none"]

Init ==
    /\ Idle
    /\ arg = NoArg
    /\ ret = Pending

(***************************************************************************)
(* One caller working on the pool through _get_connection and cleanup.     *)
(***************************************************************************)
Next ==
    \/ \E t \in Threads : Acquire(t)
    \/ \E t \in Threads, e \in {"sqlite", "other"} : BodyRaises(t, e)
    \/ \E t \in Threads : Release(t)
    \/ \E t \in Threads : ReleaseDone(t)
    \/ \E t \in Threads : UnwindConn(t)
    \/ \E t \in Threads : CallerCatches(t)
    \/ \E t \in Threads : Cleanup(t)
    \/ \E h \in Handles : Degrade(h)

Spec == Init /\ [][Next]_vars

\* a statement that empties the table it reads
StoreAfterTouching(o, db) ==
    IF o.a \in KnowledgeTables THEN [db EXCEPT ![o.a] = 0] ELSE db

\* the knowledge tables after the Engine executed statement o
StoreAfter(o, db) == db

\* MetaObserver.record_metric keeps its observations outside the knowledge tables
RecordMetric(db) == db

\* what a SELECT on table tb returns
Read(tb) == IF tb \in KnowledgeTables THEN kdb[tb] ELSE 0

\* the status the except clauses give the audit record
StatusOf(out) ==
    CASE out.kind = "ok" -> "success"
      [] out.kind = "QS003" -> "timeout"
      [] OTHER -> "error"

AuditRow(f) == [query_type |-> f.m, status |-> StatusOf(f.out)]

\* an except clause that catches sqlite3.Error only
LogQueryCatchesStoreOnly(e) == e = "sqlite"

\* _log_query's `except Exception`
LogQueryCatches(e) == e \in ExcKinds

\* the caller calls Engine method m
Call(t, m, inp) ==
    /\ Running(t)
    /\ Depth(t) = 0
    /\ calls < MaxCalls
    /\ inp \in InputsOf(m)
    /\ calls' = calls + 1
    /\ stack' = Push(t, Frame("call", m, "start", inp))
    /\ UNCHANGED <<exc, alarm, kdb, audit, lastRet>>
    /\ UNCHANGED pureVars
    /\ UNCHANGED poolVars

\* validation before the store is touched, then `with TimeoutHandler(timeout):`
CallStart(t) ==
    /\ Running(t)
    /\ TopIs(t, "call")
    /\ Top(t).pc = "start"
    /\ IF Top(t).inp \in Range(MethodPre(Top(t).m)) \cup {"task_none"}
       THEN /\ exc' = [exc EXCEPT ![t] = "QS001"]
            /\ UNCHANGED <<stack, alarm>>
       ELSE /\ alarm' = (alarm \/ MethodGuard(Top(t).m))
            /\ stack' = SetTop(t, [Top(t) EXCEPT
                            !.g = MethodGuard(Top(t).m),
                            !.pc = IF Top(t).m = "build_context" THEN "nested" ELSE "with"])
            /\ UNCHANGED exc
    /\ UNCHANGED <<kdb, audit, calls, lastRet>>
    /\ UNCHANGED pureVars
    /\ UNCHANGED poolVars

\* `with self._get_connection() as conn:` of a query method
CallWith(t) ==
    /\ Running(t)
    /\ TopIs(t, "call")
    /\ Top(t).pc = "with"
    /\ GetConnectionEnter(t, Below(t), [Top(t) EXCEPT !.pc = "body", !.i = 1])
    /\ UNCHANGED engineVars

\* one statement of a with-body (of the method, of _log_query or of
\* _record_system_metrics)
CallStep(t) ==
    /\ Running(t)
    /\ TopIs(t, "call")
    /\ Top(t).cpc = "body"
    /\ Top(t).i <= Len(ScriptOf(Top(t)))
    /\ LET f == Top(t)
           o == ScriptOf(f)[f.i]
           next == [f EXCEPT !.i = f.i + 1]
       IN  CASE o.op = "validate" ->
                  /\ IF o.a = f.inp
                     THEN exc' = [exc EXCEPT ![t] = "QS001"] /\ UNCHANGED stack
                     ELSE stack' = SetTop(t, next) /\ UNCHANGED exc
                  /\ UNCHANGED <<tx, kdb, audit, faults>>
             [] o.op = "metric" ->
                  /\ stack' = SetTop(t, next)
                  /\ kdb' = RecordMetric(kdb)
                  /\ UNCHANGED <<exc, tx, audit, faults>>
             [] OTHER ->
                  \/ /\ faults < MaxFaults
                     /\ faults' = faults + 1
                     /\ exc' = [exc EXCEPT ![t] = "sqlite"]
                     /\ UNCHANGED <<stack, tx, kdb, audit>>
                  \/ /\ CASE o.op = "insert" ->
                                /\ tx' = [tx EXCEPT ![f.h] = Append(@, AuditRow(f))]
                                /\ stack' = SetTop(t, next)
                                /\ UNCHANGED audit
                           [] o.op = "commit" ->
                                /\ audit' = audit \o tx[f.h]
                                /\ tx' = [tx EXCEPT ![f.h] = <<>>]
                                /\ stack' = SetTop(t, next)
                           [] OTHER ->
                                /\ stack' = SetTop(t, [next EXCEPT !.rd = Append(@, Read(o.a))])
                                /\ UNCHANGED <<tx, audit>>
                     /\ kdb' = StoreAfter(o, kdb)
                     /\ UNCHANGED <<exc, faults>>
    /\ UNCHANGED <<pool, hstate, sick, nextId, errored, alarm, calls, lastRet>>
    /\ UNCHANGED pureVars

\* a with-block of a method is left; after _log_query the method returns,
\* build_context goes on to _record_system_metrics
CallReleaseDone(t) ==
    /\ Running(t)
    /\ TopIs(t, "call")
    /\ Top(t).cpc = "rel_done"
    /\ stack' = SetTop(t, [Top(t) EXCEPT
                    !.cpc = "none", !.h = 0,
                    !.pc = CASE Top(t).pc = "body" -> "after"
                             [] Top(t).pc = "log" /\ Top(t).m = "build_context" -> "logged"
                             [] OTHER -> "ret"])
    /\ UNCHANGED <<exc>>
    /\ UNCHANGED poolVars
    /\ UNCHANGED engineVars

\* TimeoutHandler.__exit__ (signal.alarm(0)) and the method's return statement
CallGuardExit(t) ==
    /\ Running(t)
    /\ TopIs(t, "call")
    /\ \/ Top(t).pc = "after"
       \/ Top(t).pc = "nested" /\ Top(t).i > Len(NestedCalls(Top(t).inp))
    /\ alarm' = (alarm /\ ~Top(t).g)
    /\ stack' = SetTop(t, [Top(t) EXCEPT
                    !.g = FALSE, !.out = Ok(Top(t).rd),
                    !.pc = IF MethodLogs(Top(t).m) THEN "finally" ELSE "ret"])
    /\ UNCHANGED <<exc, kdb, audit, calls, lastRet>>
    /\ UNCHANGED pureVars
    /\ UNCHANGED poolVars

\* build_context calls the next query method
CallNested(t) ==
    /\ Running(t)
    /\ TopIs(t, "call")
    /\ Top(t).pc = "nested"
    /\ Top(t).i <= Len(NestedCalls(Top(t).inp))
    /\ stack' = Push(t, Frame("call", NestedCalls(Top(t).inp)[Top(t).i], "start", "valid"))
    /\ UNCHANGED <<exc>>
    /\ UNCHANGED poolVars
    /\ UNCHANGED engineVars


\* the arguments of the _log_query call in f's finally block raise TypeError:
\* build_context evaluates task[:50] with the task it was given
LogArgumentsRaise(f) == f.m = "build_context" /\ f.inp = "task_none"

\* the finally block: _log_query opens its own with-block
CallFinally(t) ==
    /\ Running(t)
    /\ TopIs(t, "call")
    /\ Top(t).pc = "finally"
    /\ IF LogArgumentsRaise(Top(t))
       THEN /\ exc' = [exc EXCEPT ![t] = "other"]
            /\ UNCHANGED <<stack, poolVars>>
       ELSE GetConnectionEnter(t, Below(t), [Top(t) EXCEPT !.pc = "log", !.i = 1])
    /\ UNCHANGED engineVars

\* build_context's finally block goes on: _record_system_metrics returns at once
\* without MetaObserver, else opens its own with-block
CallLogged(t) ==
    /\ Running(t)
    /\ TopIs(t, "call")
    /\ Top(t).pc = "logged"
    /\ \/ /\ stack' = SetTop(t, [Top(t) EXCEPT !.pc = "ret"])
          /\ UNCHANGED <<exc>>
          /\ UNCHANGED poolVars
       \/ GetConnectionEnter(t, Below(t), [Top(t) EXCEPT !.pc = "metrics", !.i = 1])
    /\ UNCHANGED engineVars

\* the frames of thread t after its top frame returned value v to its caller
Returned(t, v) ==
    IF Depth(t) > 1
    THEN [Below(t) EXCEPT ![Depth(t) - 1] =
            [@ EXCEPT !.rd = Append(@, v), !.i = @ + 1]]
    ELSE Below(t)

\* the method ends: it returns its value, or re-raises what its try block raised
CallReturn(t) ==
    /\ Running(t)
    /\ TopIs(t, "call")
    /\ Top(t).pc = "ret"
    /\ LET f == Top(t)
       IN  /\ IF f.out.kind = "ok"
              THEN /\ stack' = [stack EXCEPT ![t] = Returned(t, f.out.val)]
                   /\ UNCHANGED exc
              ELSE /\ stack' = Pop(t)
                   /\ exc' = [exc EXCEPT ![t] = f.out.kind]
           /\ lastRet' = [lastRet EXCEPT ![t] =
                 [m |-> f.m, decided |-> f.out, delivered |-> f.out,
                  lf |-> f.lf, th |-> f.th, out |-> f.out]]
    /\ UNCHANGED <<alarm, kdb, audit, calls>>
    /\ UNCHANGED pureVars
    /\ UNCHANGED poolVars

(***************************************************************************)
(* An exception travels through the top method activation: through the     *)
(* except clauses of _get_connection when it is inside a with-block, then  *)
(* through TimeoutHandler.__exit__, then to the method's own clauses.      *)
(***************************************************************************)
UnwindCall(t) ==
    /\ ~Running(t)
    /\ TopIs(t, "call")
    /\ LET f == Top(t)
           e == IF f.cpc # "none" THEN Reraised(exc[t]) ELSE exc[t]
           left == [f EXCEPT !.cpc = "none", !.h = 0, !.g = FALSE]
           gone(decided) ==
               /\ stack' = Pop(t)
               /\ exc' = [exc EXCEPT ![t] = e]
               /\ lastRet' = [lastRet EXCEPT ![t] =
                     [m |-> f.m, decided |-> decided, delivered |-> Err(e),
                      lf |-> f.lf, th |-> f.th, out |-> f.out]]
           caught(g) ==
               /\ stack' = SetTop(t, g)
               /\ exc' = [exc EXCEPT ![t] = NoExc]
               /\ UNCHANGED lastRet
       IN  /\ hstate' = AfterHandler(f, exc[t])
           /\ tx' = RolledBack(f)
           /\ errored' = ErroredAfter(f)
           /\ alarm' = (alarm /\ ~f.g)
           /\ CASE f.pc \in {"start", "with", "body", "after", "nested"} ->
                    IF f.m = "validate_database"
                    THEN caught([left EXCEPT !.out = Ok(<<"invalid">>), !.pc = "ret"])
                    ELSE IF MethodLogs(f.m)
                    THEN caught([left EXCEPT !.out = Err(e), !.pc = "finally"])
                    ELSE gone(Err(e))
                [] f.pc = "log" ->
                    IF LogQueryCatches(e)
                    THEN caught([left EXCEPT !.lf = TRUE,
                                   !.pc = IF f.m = "build_context" THEN "logged" ELSE "ret"])
                    ELSE gone(f.out)
                [] f.pc = "metrics" -> caught([left EXCEPT !.pc = "ret"])
                [] f.pc = "finally" -> gone(Err(e))
                [] OTHER -> gone(f.out)
    /\ pool' = PoolAfterHandler(Top(t))
    /\ UNCHANGED <<sick, nextId, faults, kdb, audit, calls>>
    /\ UNCHANGED pureVars

(***************************************************************************)
(* TimeoutHandler._timeout_handler: the armed SIGALRM fires and raises     *)
(* TimeoutError in whatever code the thread is executing.                  *)
(***************************************************************************)
Timeout(t) ==
    /\ alarm
    /\ Running(t)
    /\ TopIs(t, "call")
    /\ faults < MaxFaults
    /\ faults' = faults + 1
    /\ alarm' = FALSE
    /\ exc' = [exc EXCEPT ![t] = "QS003"]
    /\ stack' = SetTop(t, [Top(t) EXCEPT
                    !.th = IF Top(t).cpc # "none" THEN Top(t).h ELSE @])
    /\ UNCHANGED <<pool, hstate, sick, tx, nextId, errored>>
    /\ UNCHANGED <<kdb, audit, calls, lastRet>>
    /\ UNCHANGED pureVars

(***************************************************************************)
(* One caller making Engine calls.                                         *)
(***************************************************************************)
NextEngine ==
    \/ \E t \in Threads, m \in Methods,
          inp \in {"valid", "valid_no_filler", "task_none", "domain", "limit",
                   "tags", "query"} : Call(t, m, inp)
    \/ \E t \in Threads : CallStart(t)
    \/ \E t \in Threads : CallWith(t)
    \/ \E t \in Threads : CallStep(t)
    \/ \E t \in Threads : Release(t)
    \/ \E t \in Threads : CallReleaseDone(t)
    \/ \E t \in Threads : CallGuardExit(t)
    \/ \E t \in Threads : CallNested(t)
    \/ \E t \in Threads : CallFinally(t)
    \/ \E t \in Threads : CallLogged(t)
    \/ \E t \in Threads : CallReturn(t)
    \/ \E t \in Threads : UnwindCall(t)
    \/ \E t \in Threads : Timeout(t)
    \/ \E t \in Threads : CallerCatches(t)
    \/ \E t \in Threads : Cleanup(t)
    \/ \E h \in Handles : Degrade(h)

SpecEngine == Init /\ [][NextEngine]_vars

(***************************************************************************)
(* The validators.  A string is a sequence of characters; a domain is      *)
(* drawn as `pad` letters "a" followed by the characters of `body`, so     *)
(* that strings around MAX_DOMAIN_LENGTH are reached.  Letters and Digits  *)
(* stand for the ranges a-z, A-Z and 0-9 of the regular expression.        *)
(***************************************************************************)
Letters == {"a", "c", "x", "Z"}
Digits == {"1", "7"}
Whitespace == {" ", "\n"}

\* the character class [a-zA-Z0-9\-_.]
IsWordChar(c) == c \in Letters \cup Digits \cup {"-", "_", "."}

AllWord(s, n) == \A i \in 1..n : IsWordChar(s[i])

\* re.match(r'^[a-zA-Z0-9\-_.]+$', "a" * pad + s): `$` matches at the end of
\* the string and also just before a newline that ends the string
ReMatchWord(pad, s) ==
    \/ pad + Len(s) >= 1 /\ AllWord(s, Len(s))
    \/ /\ Len(s) >= 1
       /\ s[Len(s)] = "\n"
       /\ pad + Len(s) - 1 >= 1
       /\ AllWord(s, Len(s) - 1)

RECURSIVE LStrip(_)
LStrip(s) == IF s # <<>> /\ Head(s) \in Whitespace THEN LStrip(Tail(s)) ELSE s

RECURSIVE RStrip(_)
RStrip(s) ==
    IF s # <<>> /\ s[Len(s)] \in Whitespace THEN RStrip(SubSeq(s, 1, Len(s) - 1)) ELSE s

\* str.strip()
Strip(s) == LStrip(RStrip(s))

StrLen(d) == d.pad + Len(d.body)

\* _validate_domain
ValidateDomain(d) ==
    IF StrLen(d) = 0 THEN Err("QS001")
    ELSE IF StrLen(d) > MAX_DOMAIN_LENGTH THEN Err("QS001")
    ELSE IF ~ReMatchWord(d.pad, d.body) THEN Err("QS001")
    ELSE Ok([pad |-> d.pad,
             body |-> IF d.pad > 0 THEN RStrip(d.body) ELSE Strip(d.body)])

\* isinstance(limit, int): bool is a subclass of int
IsInstanceInt(x) == x.type \in {"int", "bool"}

\* _validate_limit
ValidateLimit(x) ==
    IF ~IsInstanceInt(x) THEN Err("QS001")
    ELSE IF x.v < MIN_LIMIT THEN Err("QS001")
    ELSE IF x.v > MAX_LIMIT THEN Err("QS001")
    ELSE Ok(x)

\* _validate_tags on a list of strings; Ok carries the validated tags
RECURSIVE ValidTagsFrom(_, _)
ValidTagsFrom(tags, acc) ==
    IF tags = <<>> THEN Ok(acc)
    ELSE LET tag == Strip(Head(tags))
         IN  IF tag = <<>> THEN ValidTagsFrom(Tail(tags), acc)
             ELSE IF Len(tag) > MAX_TAG_LENGTH THEN Err("QS001")
             ELSE IF ~ReMatchWord(0, tag) THEN Err("QS001")
             ELSE ValidTagsFrom(Tail(tags), Append(acc, tag))

ValidateTags(tags) ==
    IF Len(tags) > MAX_TAG_COUNT THEN Err("QS001")
    ELSE LET v == ValidTagsFrom(tags, <<>>)
         IN  IF v.kind = "ok" /\ v.val = <<>> THEN Err("QS001") ELSE v

DomainChars == {"a", "Z", "7", "-", "_", ".", "/", " ", "\n"}

SeqsUpTo(S, n) == UNION {[1..k -> S] : k \in 0..n}

DomainInputs ==
    {[pad |-> p, body |-> b] :
        p \in {0} \cup ((MAX_DOMAIN_LENGTH - MaxLen)..MAX_DOMAIN_LENGTH),
        b \in SeqsUpTo(DomainChars, MaxLen)}

LimitInputs ==
    {[type |-> "int", v |-> n] :
        n \in ((MIN_LIMIT - LimitMargin)..(MIN_LIMIT + LimitMargin))
              \cup ((MAX_LIMIT - LimitMargin)..(MAX_LIMIT + LimitMargin))}
    \cup {[type |-> "bool", v |-> n] : n \in {0, 1}}
    \cup {[type |-> ty, v |-> MIN_LIMIT] : ty \in {"float", "str", "NoneType"}}

\* what stays as it is in a state in which only a pure function runs
storeVars == <<pool, hstate, sick, tx, nextId, stack, exc, errored, faults,
               alarm, kdb, audit, calls, lastRet, timer, run,
               decisions, decisionSeq, hostVars>>

InitValidate ==
    /\ Idle
    /\ arg \in {[fn |-> "_validate_domain", v |-> d] : d \in DomainInputs}
               \cup {[fn |-> "_validate_limit", v |-> x] : x \in LimitInputs}
    /\ ret = Pending

ValidateDomainStep ==
    /\ arg.fn = "_validate_domain"
    /\ ret.kind = "pending"
    /\ ret' = ValidateDomain(arg.v)
    /\ UNCHANGED <<arg, storeVars>>

ValidateLimitStep ==
    /\ arg.fn = "_validate_limit"
    /\ ret.kind = "pending"
    /\ ret' = ValidateLimit(arg.v)
    /\ UNCHANGED <<arg, storeVars>>

NextValidate ==
    \/ ValidateDomainStep
    \/ ValidateLimitStep

SpecValidate == InitValidate /\ [][NextValidate]_vars

(***************************************************************************)
(* query_by_tags on a store holding one learning whose tags column is      *)
(* `field`.  Each validated tag becomes the parameter "%" + escape_like    *)
(* (tag) + "%" of a `tags LIKE ?` condition; the conditions are joined     *)
(* with OR.  The statement has no ESCAPE clause, so SQLite's LIKE has no   *)
(* escape character: "%" matches any run of characters, "_" any one        *)
(* character and a backslash only itself.                                  *)
(***************************************************************************)
RECURSIVE Replace(_, _, _)
\* str.replace(c, r) for a single character c
Replace(str, c, r) ==
    IF str = <<>> THEN <<>>
    ELSE (IF Head(str) = c THEN r ELSE <<Head(str)>>) \o Replace(Tail(str), c, r)

\* escape_like
EscapeLike(str) ==
    Replace(Replace(Replace(str, "\\", <<"\\", "\\">>), "%", <<"\\", "%">>),
            "_", <<"\\", "_">>)

RECURSIVE SqlLike(_, _)
\* `str LIKE pat` without an ESCAPE clause
SqlLike(pat, str) ==
    IF pat = <<>> THEN str = <<>>
    ELSE IF Head(pat) = "%"
         THEN SqlLike(Tail(pat), str) \/ (str # <<>> /\ SqlLike(pat, Tail(str)))
    ELSE IF str = <<>> THEN FALSE
    ELSE IF Head(pat) = "_" THEN SqlLike(Tail(pat), Tail(str))
    ELSE Head(pat) = Head(str) /\ SqlLike(Tail(pat), Tail(str))

LikeParam(tag) == <<"%">> \o EscapeLike(tag) \o <<"%">>

\* query_by_tags: the rows returned, or the validation error
QueryByTags(tags, field) ==
    LET v == ValidateTags(tags)
    IN  IF v.kind # "ok" THEN v
        ELSE Ok(IF \E i \in DOMAIN v.val : SqlLike(LikeParam(v.val[i]), field)
                THEN <<field>> ELSE <<>>)

TagChars == {"1", "x", "%", "_", "\\"}

InitTags ==
    /\ Idle
    /\ arg \in {[fn |-> "query_by_tags", tags |-> <<tg>>, field |-> fl] :
                    tg \in SeqsUpTo(TagChars, MaxTagLen) \ {<<>>},
                    fl \in SeqsUpTo(TagChars, MaxTagLen)}
    /\ ret = Pending

QueryByTagsStep ==
    /\ arg.fn = "query_by_tags"
    /\ ret.kind = "pending"
    /\ ret' = QueryByTags(arg.tags, arg.field)
    /\ UNCHANGED <<arg, storeVars>>

NextTags == QueryByTagsStep

SpecTags == InitTags /\ [][NextTags]_vars

(***************************************************************************)
(* _calculate_relevance_score.  Scores are kept as integers over the       *)
(* denominator 400 * Scale: with recency_factor = R / Scale the code's     *)
(* 0.5 * (0.5 + 0.5 * recency_factor) * boost * boost is                   *)
(* (Scale + R) * dm * vb / (400 * Scale), where dm is 15 or 10 and vb is   *)
(* 14, 12 or 10.  A creation time is counted in half days before now       *)
(* (negative: in the future).                                              *)
(***************************************************************************)
Scale == 2^20

\* Scale * 0.5 ** (r / 7) for r = 0..6, rounded
HalfLifeTable == <<1048576, 949720, 860184, 779089, 705639, 639114, 578861>>

\* 0.5 ** x raises OverflowError for x <= -FloatMaxExp
FloatMaxExp == 1024

\* (datetime.now() - created_at).days
AgeDays(t) == t \div 2

\* Scale * 0.5 ** (age / 7).  Past 20 half-lives it is below 1 / Scale; for
\* an item dated 15 or more days ahead it is above 4 * Scale, and any such
\* value clamps the score at 1.0
Recency(age) ==
    LET q == age \div 7
        r == age % 7
    IN  IF q > 20 THEN 0
        ELSE IF q >= 0 THEN HalfLifeTable[r + 1] \div (2^q)
        ELSE IF q >= -2 THEN HalfLifeTable[r + 1] * (2^(-q))
        ELSE 4 * Scale

\* the try block of the recency decay: what it leaves in `score`, times
\* 4 * Scale.  An unparseable string raises ValueError and a timestamp with
\* a UTC offset raises TypeError on the subtraction from datetime.now();
\* both are caught and leave the base score.
RecencyPart(created) ==
    IF created.kind = "naive" THEN Scale + Recency(AgeDays(created.t)) ELSE 2 * Scale

\* a domain boost that does not look at the domains
DomainBoostAlways(item, domain) == 15

\* `if domain and learning.get('domain') == domain: score *= 1.5`
DomainBoost(item, domain) == IF domain # "" /\ item.domain = domain THEN 15 ELSE 10

\* `if times_validated > 10 ... elif times_validated > 5`
ValidationBoost(tv) == IF tv > 10 THEN 14 ELSE IF tv > 5 THEN 12 ELSE 10

Min(a, b) == IF a < b THEN a ELSE b

CalculateRelevanceScore(item, domain) ==
    IF item.created.kind = "naive" /\ AgeDays(item.created.t) <= -(7 * FloatMaxExp)
    THEN Err("OverflowError")
    ELSE Ok(Min(RecencyPart(item.created) * DomainBoost(item, domain)
                    * ValidationBoost(item.tv),
                400 * Scale))

\* creation times: a run of half days around now, and three far ones (the
\* first day that overflows, the day after it, a day far in the past)
Times ==
    ((-MaxFutureHalfDays)..MaxAgeHalfDays)
    \cup {-(14 * FloatMaxExp), -(14 * FloatMaxExp) + 2, 14 * FloatMaxExp}

\* created_at: a naive timestamp, one with a UTC offset ("...Z"), an
\* unparseable string, or none
CreatedValues ==
    {[kind |-> "naive", t |-> t] : t \in Times}
    \cup {[kind |-> "aware", t |-> t] : t \in {0, MaxAgeHalfDays}}
    \cup {[kind |-> k, t |-> 0] : k \in {"bad", "none"}}

InitScore ==
    /\ Idle
    /\ arg \in {[fn |-> "_calculate_relevance_score", domain |-> d,
                 a |-> [created |-> ca, domain |-> da, tv |-> tv],
                 b |-> [created |-> cb, domain |-> db, tv |-> tv]] :
                    d \in {"", "d1"}, ca \in CreatedValues, cb \in CreatedValues,
                    da \in {"d1", "d2"}, db \in {"d1", "d2"}, tv \in {0, 5, 6, 10, 11}}
    /\ ret = Pending

\* the two items are scored with the same task and requested domain
ScoreStep ==
    /\ arg.fn = "_calculate_relevance_score"
    /\ ret.kind = "pending"
    /\ ret' = [kind |-> "scored",
               a |-> CalculateRelevanceScore(arg.a, arg.domain),
               b |-> CalculateRelevanceScore(arg.b, arg.domain)]
    /\ UNCHANGED <<arg, storeVars>>

NextScore == ScoreStep

SpecScore == InitScore /\ [][NextScore]_vars

(***************************************************************************)
(* build_context as a function from its inputs to the text it returns.     *)
(* The text is kept as the list of parts the code joins: a part is a       *)
(* record [s, n] with s the section it belongs to and n the number of      *)
(* characters of payload (the golden-rule document, one formatted entry);  *)
(* fixed headings have n = 0.  The inputs give the length of the           *)
(* golden-rule document, the lengths of the formatted Tier 2 entries (all  *)
(* Tier 2 sections add len(entry) // 4 to approx_tokens in the same way),  *)
(* the lengths of the entries query_recent would give, and the number of   *)
(* active experiments, pending reviews and similar failures.               *)
(***************************************************************************)
MAX_TOKENS == 50000
FillerThreshold == 500
CharsPerToken == 4
MaxRows == 2

Part(s, n) == [s |-> s, n |-> n]

\* a variant that cuts the document to the character budget
GoldenPartTruncated(golden, max_chars) ==
    Part("golden_rules", IF golden > max_chars THEN max_chars ELSE golden)

\* context_parts.append(golden_rules): the document as read, whatever the budget
GoldenPart(golden, max_chars) == Part("golden_rules", golden)

EntryParts(s, lens) == [i \in 1..Len(lens) |-> Part(s, lens[i])]

RowParts(s, count) == [i \in 1..count |-> Part(s, 0)]

RECURSIVE SumTokens(_)
SumTokens(lens) ==
    IF lens = <<>> THEN 0
    ELSE (Head(lens) \div CharsPerToken) + SumTokens(Tail(lens))

\* the loop over the recent learnings: every entry is appended, and the loop
\* ends after the entry that brings approx_tokens to max_tokens
RECURSIVE FillerParts(_, _, _)
FillerParts(rows, approx_tokens, max_tokens) ==
    IF rows = <<>> THEN <<>>
    ELSE LET approx == approx_tokens + (Head(rows) \div CharsPerToken)
         IN  <<Part("recent", Head(rows))>>
             \o (IF approx >= max_tokens THEN <<>>
                 ELSE FillerParts(Tail(rows), approx, max_tokens))

Section(heading, parts) ==
    IF parts = <<>> THEN <<>> ELSE <<Part(heading, 0)>> \o parts

BuildContext(a) ==
    LET max_tokens == IF a.max_tokens > MAX_TOKENS THEN MAX_TOKENS ELSE a.max_tokens
        max_chars == max_tokens * CharsPerToken
        tier1 == <<Part("TIER 1", 0), GoldenPart(a.golden, max_chars)>>
        similar == Section("Similar Failures", RowParts("similar", a.similar))
        tier2 == <<Part("TIER 2", 0)>> \o EntryParts("tier2", a.tier2)
        approx_tokens == (a.golden \div CharsPerToken) + SumTokens(a.tier2)
        remaining_tokens == max_tokens - approx_tokens
        tier3 == IF remaining_tokens > FillerThreshold
                 THEN <<Part("TIER 3", 0)>>
                      \o FillerParts(a.recent, approx_tokens, max_tokens)
                 ELSE <<>>
        experiments == Section("Active Experiments",
                               RowParts("experiment", a.experiments))
        ceo_reviews == Section("Pending CEO Reviews",
                               RowParts("ceo_review", a.ceo_reviews))
    IN  Ok(<<Part("Task Context", 0)>> \o tier1 \o similar \o tier2 \o tier3
           \o experiments \o ceo_reviews)

MaxTokensValues == {50, 1000, 1001, 1002, MAX_TOKENS + 1}

GoldenLengths == {0, 2000, 4 * MAX_TOKENS}

EntryLengths == {7, 2400}

InitContext ==
    /\ Idle
    /\ arg \in {[fn |-> "build_context", max_tokens |-> mt, golden |-> g,
                 tier2 |-> t2, recent |-> r, similar |-> s,
                 experiments |-> e, ceo_reviews |-> c] :
                    mt \in MaxTokensValues, g \in GoldenLengths,
                    t2 \in SeqsUpTo(EntryLengths, MaxRows),
                    r \in SeqsUpTo(EntryLengths, MaxRows),
                    s \in 0..1, e \in 0..MaxRows, c \in 0..MaxRows}
    /\ ret = Pending

BuildContextStep ==
    /\ arg.fn = "build_context"
    /\ ret.kind = "pending"
    /\ ret' = BuildContext(arg)
    /\ UNCHANGED <<arg, storeVars>>

NextContext == BuildContextStep

SpecContext == InitContext /\ [][NextContext]_vars

(***************************************************************************)
(* TimeoutHandler with time.  A run is the guarded code of one Engine      *)
(* call, as a list of operations: entering a guard, leaving a guard, and   *)
(* work that takes a number of seconds.  A Query Method is one guard       *)
(* around its work; build_context is one guard around work of its own and  *)
(* the calls it makes, each of which is a Query Method with a guard of its *)
(* own.  signal.alarm keeps one deadline for the process: timer is the     *)
(* number of seconds until SIGALRM, 0 when none is pending.  Time passes   *)
(* in work only.                                                           *)
(***************************************************************************)
MaxTimeout == 2
MaxWork == 3
MaxNested == 2

Platforms == {"linux", "win32"}

Op(o, d) == [op |-> o, d |-> d]

RECURSIVE NestedOps(_)
NestedOps(ds) ==
    IF ds = <<>> THEN <<>>
    ELSE <<Op("enter", 0), Op("work", Head(ds)), Op("exit", 0)>>
         \o NestedOps(Tail(ds))

GuardedOps(a) ==
    <<Op("enter", 0), Op("work", a.own)>> \o NestedOps(a.nested)
    \o <<Op("work", a.tail), Op("exit", 0)>>

Running_(o) ==
    /\ arg.fn = "guarded"
    /\ ret.kind = "pending"
    /\ run.pc \in 1..Len(GuardedOps(arg))
    /\ GuardedOps(arg)[run.pc].op = o

callVarsButDecisions ==
    <<pool, hstate, sick, tx, nextId, stack, exc, errored, faults,
      alarm, kdb, audit, calls, lastRet, hostVars>>

callVars == <<callVarsButDecisions, decisions, decisionSeq>>

\* __enter__: signal.alarm(self.seconds), unless the platform is win32
Arm(seconds) == IF arg.platform = "win32" THEN timer ELSE seconds

\* __exit__: signal.alarm(0), unless the platform is win32
Disarm == IF arg.platform = "win32" THEN timer ELSE 0

\* the caller starts the call
GuardedCall ==
    /\ arg.fn = "guarded"
    /\ ret.kind = "pending"
    /\ run.pc = 0
    /\ run' = [run EXCEPT !.pc = 1]
    /\ UNCHANGED <<arg, ret, timer, callVars>>

TimeoutHandlerEnter ==
    /\ Running_("enter")
    /\ timer' = Arm(arg.timeout)
    /\ run' = [run EXCEPT !.pc = @ + 1, !.done = 0, !.depth = @ + 1]
    /\ UNCHANGED <<arg, ret, callVars>>

TimeoutHandlerExit ==
    /\ Running_("exit")
    /\ timer' = Disarm
    /\ run' = [run EXCEPT !.pc = @ + 1, !.done = 0, !.depth = @ - 1]
    /\ UNCHANGED <<arg, ret, callVars>>

\* one second of the current work passes and no alarm is due at its end
WorkSecond ==
    /\ Running_("work")
    /\ run.done < GuardedOps(arg)[run.pc].d
    /\ timer # 1
    /\ timer' = IF timer > 0 THEN timer - 1 ELSE 0
    /\ run' = [run EXCEPT !.done = @ + 1, !.elapsed = @ + 1]
    /\ UNCHANGED <<arg, ret, callVars>>

WorkEnd ==
    /\ Running_("work")
    /\ run.done = GuardedOps(arg)[run.pc].d
    /\ run' = [run EXCEPT !.pc = @ + 1, !.done = 0]
    /\ UNCHANGED <<arg, ret, timer, callVars>>

\* _timeout_handler: SIGALRM arrives during the work; TimeoutError leaves
\* every guard through its __exit__ and reaches the caller
TimeoutHandlerFire ==
    /\ Running_("work")
    /\ run.done < GuardedOps(arg)[run.pc].d
    /\ timer = 1
    /\ timer' = 0
    /\ run' = [run EXCEPT !.pc = Len(GuardedOps(arg)) + 1, !.done = 0,
                          !.depth = 0, !.elapsed = @ + 1]
    /\ ret' = Err("QS003")
    /\ UNCHANGED <<arg, callVars>>

GuardedReturn ==
    /\ arg.fn = "guarded"
    /\ ret.kind = "pending"
    /\ run.pc = Len(GuardedOps(arg)) + 1
    /\ ret' = Ok("done")
    /\ UNCHANGED <<arg, timer, run, callVars>>

InitGuard ==
    /\ Idle
    /\ arg \in {[fn |-> "guarded", platform |-> p, timeout |-> s,
                 own |-> w, nested |-> n, tail |-> l] :
                    p \in Platforms, s \in 1..MaxTimeout, w \in 0..MaxWork,
                    n \in SeqsUpTo(0..MaxWork, MaxNested), l \in 0..MaxWork}
    /\ ret = Pending

NextGuard ==
    \/ GuardedCall
    \/ TimeoutHandlerEnter
    \/ TimeoutHandlerExit
    \/ WorkSecond
    \/ WorkEnd
    \/ TimeoutHandlerFire
    \/ GuardedReturn

SpecGuard == InitGuard /\ [][NextGuard]_vars

(***************************************************************************)
(* The command line: main() builds the Engine, runs the operation the      *)
(* arguments select and returns the exit code.  The inputs say which       *)
(* operation is selected, how the construction of the Engine ends and how  *)
(* the operation ends ("ok", or the kind of the exception it raises).      *)
(***************************************************************************)
Operations ==
    {"validate", "health_check", "context", "golden_rules", "decisions",
     "spikes", "assumptions", "invariants", "domain", "tags", "recent",
     "experiments", "ceo_reviews", "stats", "violations",
     "accountability_banner", "help"}

Exit(code) == [kind |-> "exit", val |-> code]

\* except QuerySystemError / except Exception around QuerySystem(...)
ConstructionExit(e) == 1

\* the except clauses around the operation, in their order
ExecutionExit(e) ==
    CASE e = "QS001" -> 1
      [] e = "QS003" -> 3
      [] e = "QS002" -> 2
      [] e = "QS004" -> 1
      [] OTHER -> 1

\* QuerySystem(base_path=..., debug=...)
MainConstruct ==
    /\ arg.fn = "main"
    /\ ret.kind = "pending"
    /\ ret' = IF arg.construction = "ok" THEN [kind |-> "constructed", val |-> 0]
              ELSE Exit(ConstructionExit(arg.construction))
    /\ UNCHANGED <<arg, storeVars>>

\* the operation, the except clauses, cleanup() and the return
MainExecute ==
    /\ arg.fn = "main"
    /\ ret.kind = "constructed"
    /\ ret' = CASE arg.outcome = "ok" -> Exit(0)
                [] arg.outcome = "invalid" -> Exit(1)
                [] arg.outcome = "unavailable" -> Exit(1)
                [] OTHER -> Exit(ExecutionExit(arg.outcome))
    /\ UNCHANGED <<arg, storeVars>>

\* validate_database reports every error in its result; the health check
\* ends early when the meta-observer cannot be imported; reading the golden
\* rules and printing the help raise none of the Engine's errors
OutcomesOf(op) ==
    CASE op = "validate" -> {"ok", "invalid", "other"}
      [] op = "health_check" -> {"ok", "unavailable", "other"}
      [] op \in {"golden_rules", "help"} -> {"ok", "other"}
      [] OTHER -> {"ok", "QS001", "QS002", "QS003", "other"}

InitMain ==
    /\ Idle
    /\ arg \in {[fn |-> "main", op |-> op, construction |-> c, outcome |-> o] :
                    op \in Operations, c \in {"ok", "QS002", "QS004", "other"},
                    o \in {"ok", "invalid", "unavailable", "QS001", "QS002",
                           "QS003", "other"}}
    /\ arg.outcome \in OutcomesOf(arg.op)
    /\ ret = Pending

NextMain ==
    \/ MainConstruct
    \/ MainExecute

SpecMain == InitMain /\ [][NextMain]_vars

(***************************************************************************)
(* The decision records of the dashboard.  A row keeps its status and its  *)
(* superseded_by pointer (0 for NULL); the other columns do not take part. *)
(* The id column is INTEGER PRIMARY KEY AUTOINCREMENT, so a new row gets   *)
(* an id above every id handed out before.  The dashboard's connection     *)
(* does not turn foreign keys on, so a row that others point to can be     *)
(* deleted.  Each handler commits before it awaits the broadcast.          *)
(***************************************************************************)
Statuses == {"accepted", "superseded"}

Exists(d) == decisions[d].status # "none"

\* a variant of update_decision that takes superseded_by from the request
UpdatedPointerFromRequest(row, target) == target

\* DecisionUpdate has no superseded_by field: an update keeps the pointer
UpdatedPointer(row, target) == row.superseded_by

create_decision ==
    /\ arg.fn = "dashboard"
    /\ decisionSeq < MaxDecisions
    /\ \E st \in Statuses :
          decisions' = [decisions EXCEPT ![decisionSeq + 1] =
                            [status |-> st, superseded_by |-> 0]]
    /\ decisionSeq' = decisionSeq + 1
    /\ UNCHANGED <<arg, ret, timer, run, callVarsButDecisions>>

update_decision ==
    /\ arg.fn = "dashboard"
    /\ \E d \in DecisionIds, st \in Statuses, target \in DecisionIds :
          /\ Exists(d)
          /\ decisions' = [decisions EXCEPT ![d] =
                [status |-> st,
                 superseded_by |-> UpdatedPointer(decisions[d], target)]]
    /\ UNCHANGED <<arg, ret, timer, run, decisionSeq, callVarsButDecisions>>

delete_decision ==
    /\ arg.fn = "dashboard"
    /\ \E d \in DecisionIds :
          /\ Exists(d)
          /\ decisions' = [decisions EXCEPT ![d] = NoDecision]
    /\ UNCHANGED <<arg, ret, timer, run, decisionSeq, callVarsButDecisions>>

supersede_decision ==
    /\ arg.fn = "dashboard"
    /\ decisionSeq < MaxDecisions
    /\ \E d \in DecisionIds, st \in Statuses :
          /\ Exists(d)
          /\ decisions' = [decisions EXCEPT
                ![decisionSeq + 1] = [status |-> st, superseded_by |-> 0],
                ![d] = [status |-> "superseded",
                        superseded_by |-> decisionSeq + 1]]
    /\ decisionSeq' = decisionSeq + 1
    /\ UNCHANGED <<arg, ret, timer, run, callVarsButDecisions>>

InitDecisions ==
    /\ Idle
    /\ arg = [fn |-> "dashboard"]
    /\ ret = Pending

NextDecisions ==
    \/ create_decision
    \/ update_decision
    \/ delete_decision
    \/ supersede_decision

SpecDecisions == InitDecisions /\ [][NextDecisions]_vars

(***************************************************************************)
(* find_similar_failures (query.py 1610-1655) as a function of the task    *)
(* text, the threshold, the limit and the learnings table.  A text is the  *)
(* set of the raw words re.split(r'\W+', .) yields from it; a threshold    *)
(* and a similarity are counted in hundredths.                             *)
(***************************************************************************)
RawWords == {"Auth", "auth", "token", "cache", "login", "retry", "queue", "fix", "db"}

\* str.lower() and len() on the raw words above
Lower(w) == IF w = "Auth" THEN "auth" ELSE w
WordLen(w) ==
    CASE w \in {"db"} -> 2
      [] w \in {"fix"} -> 3
      [] w \in {"Auth", "auth"} -> 4
      [] OTHER -> 5

MinWordLen == 3
MatchedCut == 5
RecentFailureLimit == 50
RecentFailureDays == 30
MaxItems == 3

\* 1626: the length filter runs on the raw word, the lower-casing after it
TaskWords(task) == {Lower(w) : w \in {x \in task : WordLen(x) > MinWordLen}}

\* 1637-1639: title + ' ' + (summary or ''), lower-cased, then filtered
FailureWords(row) ==
    {w \in {Lower(x) : x \in row.title \cup row.summary} : WordLen(w) > MinWordLen}

\* query_recent(type_filter='failure', limit=50, days=30), the table being
\* kept newest first (ORDER BY created_at DESC)
QueryRecentFailures(store) ==
    LET hits == SelectSeq([i \in 1..Len(store) |-> [id |-> i, row |-> store[i]]],
                          LAMBDA r : r.row.type = "failure"
                                     /\ r.row.days <= RecentFailureDays)
    IN SubSeq(hits, 1, Min(RecentFailureLimit, Len(hits)))

\* round(i / u, 2) in hundredths (ties to even, which is what round() gives
\* for the exactly representable ties)
Round2(i, u) ==
    LET q == (100 * i) \div u
        r == (100 * i) % u
    IN IF 2 * r > u \/ (2 * r = u /\ q % 2 = 1) THEN q + 1 ELSE q

\* 1648: similarity >= threshold, on the unrounded ratio i / u
KeepsRounded(i, u, threshold) == Round2(i, u) >= threshold
Keeps(i, u, threshold) == 100 * i >= threshold * u

\* 1652: list(task_words & failure_words)[:5]; order is the iteration order
\* of the set, which the string hashes of the run decide
MatchedKeywords(inter, order) ==
    LET listed == SelectSeq(order, LAMBDA w : w \in inter)
    IN SubSeq(listed, 1, Min(MatchedCut, Len(listed)))

\* 1655: sorted(.., key=similarity, reverse=True) is stable
RECURSIVE SortedBySimilarity(_)
SortedBySimilarity(s) ==
    IF s = <<>> THEN <<>>
    ELSE LET x == s[Len(s)]
             front == SortedBySimilarity(SubSeq(s, 1, Len(s) - 1))
             before == SelectSeq(front, LAMBDA y : y.similarity >= x.similarity)
             after == SelectSeq(front, LAMBDA y : y.similarity < x.similarity)
         IN before \o <<x>> \o after

\* s[:limit] of a Python list
SliceTo(s, limit) ==
    IF limit >= 0 THEN SubSeq(s, 1, Min(limit, Len(s)))
    ELSE SubSeq(s, 1, IF Len(s) + limit > 0 THEN Len(s) + limit ELSE 0)

RECURSIVE SimilarOf(_, _, _, _)
SimilarOf(failures, task_words, threshold, order) ==
    IF failures = <<>> THEN <<>>
    ELSE LET failure == Head(failures)
             failure_words == FailureWords(failure.row)
             inter == task_words \cap failure_words
             union == task_words \cup failure_words
             rest == SimilarOf(Tail(failures), task_words, threshold, order)
         IN IF failure_words # {}
               /\ Keeps(Cardinality(inter), Cardinality(union), threshold)
            THEN <<[id |-> failure.id,
                    similarity |-> Round2(Cardinality(inter), Cardinality(union)),
                    matched_keywords |-> MatchedKeywords(inter, order)]>> \o rest
            ELSE rest

find_similar_failures(a, order) ==
    LET task_words == TaskWords(a.task)
    IN IF task_words = {} THEN Ok([items |-> <<>>, reads |-> 0])
       ELSE Ok([items |-> SliceTo(SortedBySimilarity(
                              SimilarOf(QueryRecentFailures(a.store), task_words,
                                        a.threshold, order)), a.limit),
                reads |-> 1])

Tasks ==
    {{}, {"fix", "db"}, {"token"}, {"Auth", "token"}, {"auth", "token", "cache"},
     {"auth", "token", "cache", "login", "retry", "queue"}}
Thresholds == {0, 30, 67}
Limits == {-1, 0, 1, 2}
Learning(type, days, title, summary) ==
    [type |-> type, days |-> days, title |-> title, summary |-> summary]
Learnings ==
    {Learning("failure", 1, {"Auth", "token"}, {}),
     Learning("failure", 2, {"auth"}, {"token", "cache"}),
     Learning("failure", 3, {"auth", "token", "cache"}, {"login", "retry", "queue", "fix"}),
     Learning("failure", 4, {"fix", "db"}, {}),
     Learning("failure", 31, {"auth", "token"}, {}),
     Learning("success", 1, {"auth", "token"}, {}),
     Learning("failure", 5, {"login"}, {"retry"})}
IterationOrders ==
    {<<"auth", "token", "cache", "login", "retry", "queue">>,
     <<"queue", "retry", "login", "cache", "token", "auth">>}

InitSimilar ==
    /\ Idle
    /\ arg \in {[fn |-> "find_similar_failures", task |-> t, threshold |-> th,
                 limit |-> l, store |-> s] :
                    t \in Tasks, th \in Thresholds, l \in Limits,
                    s \in SeqsUpTo(Learnings, MaxItems)}
    /\ ret = Pending

FindSimilarFailuresStep ==
    /\ arg.fn = "find_similar_failures"
    /\ ret = Pending
    /\ \E order \in IterationOrders : ret' = find_similar_failures(arg, order)
    /\ UNCHANGED <<arg, storeVars>>

NextSimilar == FindSimilarFailuresStep

SpecSimilar == InitSimilar /\ [][NextSimilar]_vars

(***************************************************************************)
(* One Engine shared by two threads without a mutex.  Each thread is a     *)
(* caller that opens and leaves with-blocks on _get_connection, nested or  *)
(* not; the interpreter switches threads between any two statements, so    *)
(* the test of the pool and the pop (362-364), and the test of the cap and *)
(* the append (382-383), are separate steps.  A connection belongs to the  *)
(* thread that created it (sqlite3.connect, check_same_thread left on): in *)
(* another thread "SELECT 1" and close() raise ProgrammingError.  A frame  *)
(* is a with-block: its connection h, its position cpc in the generator    *)
(* and the pool length its cap test read.  lastRet keeps, per thread, how  *)
(* its last with-block ended.                                              *)
(***************************************************************************)
SharingThreads == {1, 2}

SharedFrame(h, cpc, seen) == [h |-> h, cpc |-> cpc, seen |-> seen]

SharedEnded(how, seen, after) ==
    [m |-> how, seen |-> seen, after |-> after]

sharedRest ==
    <<sick, tx, errored, faults, alarm, kdb, audit, calls, arg, ret, timer, run,
      decisions, decisionSeq, assumptions, manager, monitor>>

\* the with-blocks a thread has open at once: thread 1 is a caller that
\* nests them, thread 2 one that never does (as the Engine's own methods)
MaxSharedNest == 5
SharedNest(t) == IF t = 1 THEN MaxSharedNest ELSE 1

\* _create_connection, for the with-block on top of thread t's frames
SharedCreate(t, frames, hs) ==
    /\ nextId < MaxHandles
    /\ nextId' = nextId + 1
    /\ hstate' = [hs EXCEPT ![nextId + 1] = "open"]
    /\ owner' = [owner EXCEPT ![nextId + 1] = t]
    /\ stack' = [stack EXCEPT ![t] = Append(frames, SharedFrame(nextId + 1, "body", 0))]

\* 362, 371-373: `if self._connection_pool:`, and on an empty pool the
\* creation of a connection, which touches nothing the threads share
SharedTestPool(t) ==
    /\ Depth(t) < SharedNest(t)
    /\ Depth(t) > 0 => Top(t).cpc = "body"
    /\ IF pool # <<>>
       THEN /\ stack' = Push(t, SharedFrame(0, "pop", 0))
            /\ UNCHANGED <<hstate, nextId, owner>>
       ELSE SharedCreate(t, stack[t], hstate)
    /\ UNCHANGED <<pool, exc, lastRet, sharedRest>>

\* 363-369: pop() raises IndexError on a pool the other thread emptied
\* since the test; a connection of the other thread fails the probe and
\* then raises from close(), in the try block and again in the handler,
\* and is left open; a closed or broken one is closed and replaced
SharedPop(t) ==
    /\ Depth(t) > 0
    /\ Top(t).cpc = "pop"
    /\ IF pool = <<>>
       THEN /\ stack' = Pop(t)
            /\ lastRet' = [lastRet EXCEPT ![t] = SharedEnded("IndexError", 0, 0)]
            /\ UNCHANGED <<pool, hstate, nextId, owner>>
       ELSE LET conn == pool[Len(pool)]
            IN /\ pool' = SubSeq(pool, 1, Len(pool) - 1)
               /\ IF owner[conn] # t
                  THEN /\ stack' = Pop(t)
                       /\ lastRet' = [lastRet EXCEPT ![t] =
                                         SharedEnded("ProgrammingError", 0, 0)]
                       /\ UNCHANGED <<hstate, nextId, owner>>
                  ELSE IF ValidateConnection(conn)
                  THEN /\ stack' = SetTop(t, SharedFrame(conn, "body", 0))
                       /\ UNCHANGED <<hstate, nextId, owner, lastRet>>
                  ELSE /\ SharedCreate(t, Below(t), CloseIn(hstate, conn))
                       /\ UNCHANGED lastRet
    /\ UNCHANGED <<exc, sharedRest>>

\* 382, 385-387: `if len(self._connection_pool) < self.MAX_CONNECTION_POOL_SIZE:`
\* and, at the cap, the close of the thread's own connection
SharedTestCap(t) ==
    /\ Depth(t) > 0
    /\ Top(t).cpc = "body"
    /\ IF UnderCap(Len(pool))
       THEN /\ stack' = SetTop(t, SharedFrame(Top(t).h, "append", Len(pool)))
            /\ UNCHANGED <<hstate, lastRet>>
       ELSE /\ hstate' = CloseIn(hstate, Top(t).h)
            /\ stack' = Pop(t)
            /\ lastRet' = [lastRet EXCEPT ![t] =
                              SharedEnded("closed", Len(pool), Len(pool))]
    /\ UNCHANGED <<pool, nextId, exc, owner, sharedRest>>

\* 383-384
SharedAppend(t) ==
    /\ Depth(t) > 0
    /\ Top(t).cpc = "append"
    /\ pool' = Append(pool, Top(t).h)
    /\ stack' = Pop(t)
    /\ lastRet' = [lastRet EXCEPT ![t] =
                      SharedEnded("pooled", Top(t).seen, Len(pool) + 1)]
    /\ UNCHANGED <<hstate, nextId, exc, owner, sharedRest>>

InitShared ==
    /\ pool = <<>>
    /\ hstate = [h \in Handles |-> "unborn"]
    /\ sick = {}
    /\ tx = [h \in Handles |-> <<>>]
    /\ nextId = 0
    /\ stack = [t \in SharingThreads |-> <<>>]
    /\ exc = [t \in SharingThreads |-> NoExc]
    /\ errored = {}
    /\ faults = 0
    /\ alarm = FALSE
    /\ kdb = [tb \in KnowledgeTables |-> 1]
    /\ audit = <<>>
    /\ calls = 0
    /\ lastRet = [t \in SharingThreads |-> SharedEnded("", 0, 0)]
    /\ timer = 0
    /\ run = NoRun
    /\ decisions = [d \in DecisionIds |-> NoDecision]
    /\ decisionSeq = 0
    /\ owner = [h \in Handles |-> 0]
    /\ assumptions = NoAssumptions
    /\ manager = NoManager
    /\ monitor = NoMonitor
    /\ arg = [fn |-> "shared"]
    /\ ret = Pending

NextShared ==
    \/ \E t \in SharingThreads : SharedTestPool(t)
    \/ \E t \in SharingThreads : SharedPop(t)
    \/ \E t \in SharingThreads : SharedTestCap(t)
    \/ \E t \in SharingThreads : SharedAppend(t)

SpecShared == InitShared /\ [][NextShared]_vars

(***************************************************************************)
(* The dashboard's assumptions table and its create, update, verify and    *)
(* challenge handlers (main.py 1744-1956).  Each handler reads and writes  *)
(* on one connection and commits before its first await, so a handler is   *)
(* one step.  A confidence is the fraction n / d; a request's confidence   *)
(* is given in tenths, as <<tenths>>, or is <<>> for None.  The counters   *)
(* of a new row are the table's column defaults.                           *)
(***************************************************************************)
MaxAssumptions == 2
MaxChecks == 4
AssumptionIds == 1..MaxAssumptions

Fraction(n, d) == [n |-> n, d |-> d]

\* a confidence stored as it was sent
Unclamped(tenths) == Fraction(tenths, 10)

\* max(0.0, min(1.0, confidence))
Clamped(tenths) ==
    Fraction(IF tenths > 10 THEN 10 ELSE IF tenths < 0 THEN 0 ELSE tenths, 10)

DefaultConfidence == 5
CounterDefault == 0
VerifiedThreshold == 3
InvalidatedThreshold == 3

ValidStatuses == {"active", "verified", "challenged", "invalidated"}

AssumptionExists(i) == i \in DOMAIN assumptions

Response(op, id, code) == Ok([op |-> op, id |-> id, code |-> code])

dashboardRest ==
    <<pool, hstate, sick, tx, nextId, stack, exc, errored, faults, alarm, kdb,
      audit, calls, lastRet, arg, timer, run, decisions, decisionSeq, owner>>

\* POST /api/assumptions: None becomes 0.5, then the clamp; status 'active'
create_assumption(confidence) ==
    /\ arg.fn = "assumptions"
    /\ Len(assumptions) < MaxAssumptions
    /\ assumptions' =
           Append(assumptions,
                  [status |-> "active",
                   confidence |-> Clamped(IF confidence = <<>>
                                          THEN DefaultConfidence ELSE confidence[1]),
                   verified_count |-> CounterDefault,
                   challenged_count |-> CounterDefault])
    /\ ret' = Response("create", Len(assumptions) + 1, 200)
    /\ UNCHANGED <<dashboardRest, manager, monitor>>

\* PUT /api/assumptions/{id}: 404 for a missing row, 400 for a status
\* outside the four, "No updates provided" for an empty request
update_assumption(i, text, confidence, status) ==
    /\ arg.fn = "assumptions"
    /\ IF ~AssumptionExists(i)
       THEN ret' = Response("update", i, 404) /\ UNCHANGED assumptions
       ELSE IF status # "None" /\ status \notin ValidStatuses
       THEN ret' = Response("update", i, 400) /\ UNCHANGED assumptions
       ELSE IF text = "None" /\ confidence = <<>> /\ status = "None"
       THEN ret' = Response("update", i, 0) /\ UNCHANGED assumptions
       ELSE /\ assumptions' =
                   [assumptions EXCEPT
                       ![i].confidence =
                           IF confidence = <<>> THEN @ ELSE Clamped(confidence[1]),
                       ![i].status = IF status = "None" THEN @ ELSE status]
            /\ ret' = Response("update", i, 200)
    /\ UNCHANGED <<dashboardRest, manager, monitor>>

\* POST /api/assumptions/{id}/verify.  In the UPDATE the CASE reads the
\* verified_count of the row as it was before the statement.
verify_assumption(i) ==
    /\ arg.fn = "assumptions"
    /\ IF ~AssumptionExists(i)
       THEN ret' = Response("verify", i, 404) /\ UNCHANGED assumptions
       ELSE LET assumption == assumptions[i]
                new_verified == assumption.verified_count + 1
                total_checks == new_verified + assumption.challenged_count
                new_confidence == IF total_checks > 0
                                  THEN Fraction(new_verified, total_checks)
                                  ELSE assumption.confidence
            IN /\ total_checks <= MaxChecks
               /\ assumptions' =
                      [assumptions EXCEPT
                          ![i].verified_count = new_verified,
                          ![i].confidence = new_confidence,
                          ![i].status =
                              IF assumption.verified_count >= VerifiedThreshold
                              THEN "verified" ELSE @]
               /\ ret' = Response("verify", i, 200)
    /\ UNCHANGED <<dashboardRest, manager, monitor>>

\* POST /api/assumptions/{id}/challenge
challenge_assumption(i) ==
    /\ arg.fn = "assumptions"
    /\ IF ~AssumptionExists(i)
       THEN ret' = Response("challenge", i, 404) /\ UNCHANGED assumptions
       ELSE LET assumption == assumptions[i]
                new_challenged == assumption.challenged_count + 1
                total_checks == assumption.verified_count + new_challenged
                new_confidence ==
                    IF total_checks > 0
                    THEN Fraction(assumption.verified_count, total_checks)
                    ELSE Fraction(assumption.confidence.n * 8,
                                  assumption.confidence.d * 10)
                new_status ==
                    IF new_challenged >= InvalidatedThreshold
                       /\ assumption.verified_count = 0
                    THEN "invalidated"
                    ELSE IF new_challenged >= assumption.verified_count
                    THEN "challenged" ELSE assumption.status
            IN /\ total_checks <= MaxChecks
               /\ assumptions' =
                      [assumptions EXCEPT
                          ![i].challenged_count = new_challenged,
                          ![i].confidence = new_confidence,
                          ![i].status = new_status]
               /\ ret' = Response("challenge", i, 200)
    /\ UNCHANGED <<dashboardRest, manager, monitor>>

ConfidenceInputs == {<<>>, <<-5>>, <<5>>, <<15>>}
StatusInputs == {"None", "active", "unknown"}

InitAssumptions ==
    /\ Idle
    /\ arg = [fn |-> "assumptions"]
    /\ ret = Pending

NextAssumptions ==
    \/ \E c \in ConfidenceInputs : create_assumption(c)
    \/ \E i \in AssumptionIds, text \in {"None", "text"}, c \in ConfidenceInputs,
          s \in StatusInputs :
              update_assumption(i, text, c, s)
    \/ \E i \in AssumptionIds : verify_assumption(i)
    \/ \E i \in AssumptionIds : challenge_assumption(i)

SpecAssumptions == InitAssumptions /\ [][NextAssumptions]_vars

(***************************************************************************)
(* The dashboard's ConnectionManager (main.py 268-298) used by the         *)
(* websocket endpoints (461-487) and by the tasks that broadcast.  All run *)
(* on one event loop: a task runs alone from one await to the next.  The   *)
(* manager holds active_connections; alive are the sockets whose peer is   *)
(* still there (a send or receive on another raises); endpoint[s] is where *)
(* the endpoint task of socket s stands and task[b] where broadcast b      *)
(* stands: at the send to `cur`, the element at index idx of the list it   *)
(* iterates, with the sockets it found dead so far.                        *)
(***************************************************************************)
MaxSockets == 2
MaxBroadcasts == 2
Sockets == 1..MaxSockets
Broadcasts == 1..MaxBroadcasts

NoTask == [pc |-> "idle", idx |-> 0, cur |-> 0, dead |-> <<>>]

\* list.remove(x): the list without the first x, or ValueError
Removable(list, x) == x \in Range(list)
Remove(list, x) ==
    LET i == CHOOSE k \in DOMAIN list : list[k] = x /\ \A j \in 1..(k - 1) : list[j] # x
    IN SubSeq(list, 1, i - 1) \o SubSeq(list, i + 1, Len(list))

\* 290-291: `for conn in dead_connections: self.active_connections.remove(conn)`,
\* up to the first remove that raises
RECURSIVE RemoveAll(_, _)
RemoveAll(list, dead) ==
    IF dead = <<>> THEN [list |-> list, raised |-> FALSE]
    ELSE IF ~Removable(list, Head(dead)) THEN [list |-> list, raised |-> TRUE]
    ELSE RemoveAll(Remove(list, Head(dead)), Tail(dead))

managerRest == <<dashboardRest, ret, assumptions, monitor>>

\* 273-275, and the first send of the endpoint (463-470)
connect(s) ==
    /\ arg.fn = "manager"
    /\ manager # NoManager
    /\ manager.endpoint[s] = "new"
    /\ s \in manager.alive
    /\ manager' = [manager EXCEPT
                      !.active_connections = Append(@, s),
                      !.endpoint[s] = "open"]
    /\ UNCHANGED managerRest

\* the peer of a socket goes away
PeerGone(s) ==
    /\ arg.fn = "manager"
    /\ manager # NoManager
    /\ s \in manager.alive
    /\ manager' = [manager EXCEPT !.alive = @ \ {s}]
    /\ UNCHANGED managerRest

\* 473-487 and 277-278: receive_text raises on a socket whose peer is gone,
\* the loop breaks and the finally clause calls manager.disconnect
disconnect(s) ==
    /\ arg.fn = "manager"
    /\ manager # NoManager
    /\ manager # NoManager
    /\ manager.endpoint[s] = "open"
    /\ s \notin manager.alive
    /\ IF Removable(manager.active_connections, s)
       THEN manager' = [manager EXCEPT
                           !.active_connections = Remove(@, s),
                           !.endpoint[s] = "closed",
                           !.removals[s] = @ + 1]
       ELSE manager' = [manager EXCEPT !.endpoint[s] = "ValueError"]
    /\ UNCHANGED managerRest

\* the end of broadcast b: the removal loop, which has no await
BroadcastEnd(b, dead) ==
    LET r == RemoveAll(manager.active_connections, dead)
    IN [manager EXCEPT
           !.active_connections = r.list,
           !.removals = [s \in Sockets |->
                            IF s \in Range(manager.active_connections)
                               /\ s \notin Range(r.list)
                            THEN @[s] + 1 ELSE @[s]],
           !.task[b] = [NoTask EXCEPT !.pc = IF r.raised THEN "ValueError" ELSE "done"]]

\* 280-284: broadcast starts and reaches its first send
broadcast(b) ==
    /\ arg.fn = "manager"
    /\ manager # NoManager
    /\ manager.task[b].pc \in {"idle", "done"}
    /\ IF manager.active_connections = <<>>
       THEN manager' = BroadcastEnd(b, <<>>)
       ELSE manager' = [manager EXCEPT
                           !.task[b] = [pc |-> "send", idx |-> 1,
                                        cur |-> manager.active_connections[1],
                                        dead |-> <<>>]]
    /\ UNCHANGED managerRest

\* 282-291: the send to `cur` ends, with an exception when the peer is
\* gone; the loop goes on to the next index of the list as it is now, and
\* past its end to the removal loop
BroadcastSent(b) ==
    /\ arg.fn = "manager"
    /\ manager # NoManager
    /\ manager.task[b].pc = "send"
    /\ LET tk == manager.task[b]
           dead == IF tk.cur \in manager.alive THEN tk.dead
                   ELSE Append(tk.dead, tk.cur)
       IN IF tk.idx + 1 <= Len(manager.active_connections)
          THEN manager' = [manager EXCEPT
                              !.task[b] = [pc |-> "send", idx |-> tk.idx + 1,
                                           cur |-> manager.active_connections[tk.idx + 1],
                                           dead |-> dead]]
          ELSE manager' = BroadcastEnd(b, dead)
    /\ UNCHANGED managerRest

InitManager ==
    /\ Idle
    /\ arg = [fn |-> "manager"]
    /\ ret = Pending

ManagerStarted ==
    [active_connections |-> <<>>,
     alive |-> Sockets,
     endpoint |-> [s \in Sockets |-> "new"],
     task |-> [b \in Broadcasts |-> NoTask],
     removals |-> [s \in Sockets |-> 0]]

\* 269-271 and 301: the module creates its manager
ManagerInit ==
    /\ arg.fn = "manager"
    /\ manager = NoManager
    /\ manager' = ManagerStarted
    /\ UNCHANGED managerRest

NextManager ==
    \/ ManagerInit
    \/ \E s \in Sockets : connect(s)
    \/ \E s \in Sockets : PeerGone(s)
    \/ \E s \in Sockets : disconnect(s)
    \/ \E b \in Broadcasts : broadcast(b)
    \/ \E b \in Broadcasts : BroadcastSent(b)

SpecManager == InitManager /\ [][NextManager]_vars

(***************************************************************************)
(* The dashboard's monitor_changes task (main.py 311-441) and the tables   *)
(* it polls.  Every two seconds a round reads the row count of every      *)
(* watched table in one go (328-347); then, for each table whose count is  *)
(* above the count kept from the last broadcast, it broadcasts an update   *)
(* and keeps the new count (350-426); the broadcasts await, so others      *)
(* insert and delete rows between the two.  The seven tables are treated   *)
(* alike; the model follows two.  old are the rows of a table that an      *)
(* update was broadcast for, new the rows inserted since, seen the count   *)
(* the round read and last the task's last_*_count.                        *)
(***************************************************************************)
MaxWatchedRows == 2
Watched == {"metrics", "decisions"}

MonitorStarted ==
    [pc |-> "sleep",
     old |-> [tb \in Watched |-> 0],
     new |-> [tb \in Watched |-> 0],
     seen |-> [tb \in Watched |-> 0],
     last |-> [tb \in Watched |-> 0]]

monitorRest == <<dashboardRest, ret, assumptions, manager>>

\* SELECT COUNT of a table
Count(tb) == monitor.old[tb] + monitor.new[tb]

\* `if metrics_count > last_metrics_count:` (350) and its six siblings
Increased(count, last_count) == count > last_count

\* 311-319, 444-454: the startup event creates the task, all counts 0
MonitorStart ==
    /\ arg.fn = "monitor"
    /\ monitor = NoMonitor
    /\ monitor' = MonitorStarted
    /\ UNCHANGED monitorRest

\* some writer of the store inserts a row
InsertRow(tb) ==
    /\ arg.fn = "monitor"
    /\ monitor # NoMonitor
    /\ Count(tb) < MaxWatchedRows
    /\ monitor' = [monitor EXCEPT !.new[tb] = @ + 1]
    /\ UNCHANGED monitorRest

\* some writer of the store deletes a row, one that an update was
\* broadcast for or one that is still unannounced
DeleteRow(tb) ==
    /\ arg.fn = "monitor"
    /\ monitor # NoMonitor
    /\ \/ /\ monitor.old[tb] > 0
          /\ monitor' = [monitor EXCEPT !.old[tb] = @ - 1]
       \/ /\ monitor.new[tb] > 0
          /\ monitor' = [monitor EXCEPT !.new[tb] = @ - 1]
    /\ UNCHANGED monitorRest

\* 322-347: the round opens a connection and reads the seven counts
PollCounts ==
    /\ arg.fn = "monitor"
    /\ monitor # NoMonitor
    /\ monitor.pc = "sleep"
    /\ monitor' = [monitor EXCEPT !.pc = "compare",
                                  !.seen = [tb \in Watched |-> Count(tb)]]
    /\ UNCHANGED monitorRest

\* 349-441: the comparisons of the round, each followed by a broadcast of
\* the table's newest rows when the count went up, then the sleep
PollCompare ==
    /\ arg.fn = "monitor"
    /\ monitor # NoMonitor
    /\ monitor.pc = "compare"
    /\ LET told == {tb \in Watched : Increased(monitor.seen[tb], monitor.last[tb])}
       IN monitor' =
           [monitor EXCEPT
               !.pc = "sleep",
               !.last = [tb \in Watched |->
                            IF tb \in told THEN monitor.seen[tb] ELSE monitor.last[tb]],
               !.old = [tb \in Watched |->
                            IF tb \in told THEN Count(tb) ELSE monitor.old[tb]],
               !.new = [tb \in Watched |->
                            IF tb \in told THEN 0 ELSE monitor.new[tb]]]
    /\ UNCHANGED monitorRest

InitMonitor ==
    /\ Idle
    /\ arg = [fn |-> "monitor"]
    /\ ret = Pending

NextMonitor ==
    \/ MonitorStart
    \/ \E tb \in Watched : InsertRow(tb)
    \/ \E tb \in Watched : DeleteRow(tb)
    \/ PollCounts
    \/ PollCompare

\* the task loops for ever (`while True`, 322), so its rounds keep coming
SpecMonitor ==
    /\ InitMonitor
    /\ [][NextMonitor]_vars
    /\ WF_vars(MonitorStart)
    /\ WF_vars(PollCounts)
    /\ WF_vars(PollCompare)

(***************************************************************************)
(* Claims.                                                                 *)
(***************************************************************************)
\* C1: with one caller the pool never holds more than MAX_CONNECTION_POOL_SIZE
\* connections, and a connection whose release did not pool it was closed,
\* which happens only with the pool at its cap.
C1_PoolWithinCap ==
    /\ Len(pool) <= MAX_CONNECTION_POOL_SIZE
    /\ \A t \in Threads :
        (Depth(t) > 0 /\ Top(t).cpc = "rel_done" /\ Top(t).h \notin Range(pool))
            => /\ hstate[Top(t).h] = "closed"
               /\ Len(pool) = MAX_CONNECTION_POOL_SIZE

\* C1 witness: a release found the pool full and closed its connection
C1_Witness ==
    \E t \in Threads :
        /\ Depth(t) > 0
        /\ Top(t).cpc = "rel_done"
        /\ hstate[Top(t).h] = "closed"
        /\ Len(pool) = MAX_CONNECTION_POOL_SIZE

\* C2: a connection whose with-body raised (a store error or any other
\* exception) is rolled back and closed, and is in the pool in no later state.
C2_ErroredNeverPooled ==
    \A h \in errored :
        /\ hstate[h] = "closed"
        /\ tx[h] = <<>>
        /\ h \notin Range(pool)

\* C2 witness: the audit row was inserted and its commit raised; the connection
\* is closed with the row rolled back, and other connections are pooled since
C2_Witness ==
    \E t \in Threads, h \in errored :
        /\ TopIs(t, "call")
        /\ Top(t).lf
        /\ Top(t).i = Len(LogScript)
        /\ hstate[h] = "closed"
        /\ audit = <<>>

\* C3: when a call ends with Timeout and its deadline fired while it held a
\* connection (in the with-body or in the release step of _get_connection),
\* that connection is closed and is not in the pool.
C3_TimedOutHandleDiscarded ==
    [][\A t \in Threads :
          (/\ lastRet'[t] # lastRet[t]
           /\ lastRet'[t].delivered.kind = "QS003"
           /\ lastRet'[t].th # 0)
             => /\ hstate'[lastRet'[t].th] = "closed"
                /\ lastRet'[t].th \notin Range(pool')]_vars

\* C4: what a call delivers to its caller (the value returned or the kind of
\* error raised) is what its try block and except clauses decided, whether the
\* audit insert of _log_query succeeded or failed.
C4_OutcomeIgnoresAudit ==
    \A t \in Threads : lastRet[t].delivered = lastRet[t].decided

\* C4 witness: a call whose audit insert failed returned its rows
C4_Witness ==
    \E t \in Threads :
        /\ lastRet[t].lf
        /\ lastRet[t].delivered.kind = "ok"
        /\ lastRet[t].delivered.val # <<>>
        /\ audit = <<>>

C6_ValidatorAcceptsExactly ==
    ret.kind # "pending" =>
        /\ ret.kind \in {"ok", "QS001"}
        /\ ret.kind = "ok" => ret.val = arg.v
        /\ arg.fn = "_validate_limit" =>
              (ret.kind = "ok" <=> (IsInstanceInt(arg.v) /\ arg.v.v \in 1..1000))
        /\ arg.fn = "_validate_domain" =>
              (ret.kind = "ok" <=>
                  /\ StrLen(arg.v) \in 1..100
                  /\ \A i \in 1..Len(arg.v.body) :
                        arg.v.body[i] \in Letters \cup Digits \cup {"-", "_", "."})

\* the tag occurs verbatim in the stored tags field
ContainsVerbatim(field, tag) ==
    \E i \in 0..(Len(field) - Len(tag)) : SubSeq(field, i + 1, i + Len(tag)) = tag

\* C7: for a tag of letters, digits, "%" and "_", query_by_tags returns the
\* learning exactly when its tags field contains the tag verbatim: "%" and
\* "_" in the tag are literal characters.
C7_WildcardsAreLiteral ==
    (/\ ret.kind # "pending"
     /\ \A i \in DOMAIN arg.tags[1] : IsWordChar(arg.tags[1][i]) \/ arg.tags[1][i] = "%")
        => /\ ret.kind = "ok"
           /\ ret.val = <<arg.field>> <=> ContainsVerbatim(arg.field, arg.tags[1])

\* C8: for every item the scorer returns a value between 0.25 and 1.0
C8_ScoreInRange ==
    ret.kind = "scored" =>
        \A s \in {ret.a, ret.b} :
            s.kind = "ok" /\ 100 * Scale <= s.val /\ s.val <= 400 * Scale

\* two items that have a creation time and differ in nothing else, a the older
SameButOlder ==
    /\ arg.a.domain = arg.b.domain
    /\ arg.a.created.kind = arg.b.created.kind
    /\ arg.a.created.kind \in {"naive", "aware"}
    /\ arg.a.created.t > arg.b.created.t

\* C9: of two items identical except for their creation time the older gets
\* the strictly lower score, whatever the domain match and validation count
C9_OlderScoresLower ==
    (ret.kind = "scored" /\ SameButOlder) =>
        /\ ret.a.kind = "ok"
        /\ ret.b.kind = "ok"
        /\ ret.a.val < ret.b.val

\* two items of the same age and validation count, a in the requested domain
\* and b in another one
SameButDomain ==
    /\ arg.a.created = arg.b.created
    /\ arg.a.domain = arg.domain
    /\ arg.b.domain # arg.domain

HasPart(s) == \E i \in 1..Len(ret.val) : ret.val[i].s = s

\* C11: whatever max_tokens is, the returned text holds the whole golden-rule
\* document, the experiments section whenever there are active experiments
\* and the reviews section whenever there are pending reviews; Tier 3 is there
\* exactly when more than 500 estimated tokens remain
C11_OnlyFillerBudgetGated ==
    (arg.fn = "build_context" /\ ret.kind = "ok") =>
        /\ \E i \in 1..Len(ret.val) : ret.val[i] = Part("golden_rules", arg.golden)
        /\ HasPart("Active Experiments") <=> arg.experiments > 0
        /\ Cardinality({i \in 1..Len(ret.val) : ret.val[i].s = "experiment"})
               = arg.experiments
        /\ HasPart("Pending CEO Reviews") <=> arg.ceo_reviews > 0
        /\ Cardinality({i \in 1..Len(ret.val) : ret.val[i].s = "ceo_review"})
               = arg.ceo_reviews
        /\ Cardinality({i \in 1..Len(ret.val) : ret.val[i].s = "tier2"})
               = Len(arg.tier2)
        /\ HasPart("TIER 3") <=>
              (IF arg.max_tokens > MAX_TOKENS THEN MAX_TOKENS ELSE arg.max_tokens)
                - ((arg.golden \div 4) + SumTokens(arg.tier2)) > 500

\* C11 witness: the document alone is larger than the budget, there are
\* experiments and reviews, and the text holds all of them but no Tier 3
C11_Witness ==
    /\ arg.fn = "build_context"
    /\ ret.kind = "ok"
    /\ arg.golden > 4 * arg.max_tokens
    /\ arg.experiments > 0
    /\ arg.ceo_reviews > 0
    /\ HasPart("Active Experiments")
    /\ HasPart("Pending CEO Reviews")
    /\ ~HasPart("TIER 3")
    /\ \E i \in 1..Len(ret.val) : ret.val[i] = Part("golden_rules", arg.golden)

\* C12: with max_tokens = 50 and a golden-rule document of 2,000 characters
\* the returned text begins with the whole document and has no filler tier
C12_BeginsWithGoldenRules ==
    (arg.fn = "build_context" /\ ret.kind = "ok"
        /\ arg.max_tokens = 50 /\ arg.golden = 2000) =>
        /\ ret.val[1] = Part("golden_rules", 2000)
        /\ ~HasPart("TIER 3")
        /\ ~HasPart("recent")

\* the run is one Query Method: one guard around its work
PlainCall == arg.fn = "guarded" /\ arg.nested = <<>> /\ arg.tail = 0

\* C13: on every platform a deadline is armed while the guard of a Query
\* Method is entered, and a call that returns normally did not run longer
\* than its timeout
C13_GuardNeverNoOp ==
    PlainCall =>
        /\ (ret.kind = "pending" /\ run.depth > 0) => timer > 0
        /\ ret.kind = "ok" => run.elapsed <= arg.timeout

\* the run is build_context on a platform with SIGALRM
Assembly == arg.fn = "guarded" /\ arg.nested # <<>> /\ arg.platform # "win32"

\* C17: while the guard of build_context is entered the deadline of `timeout`
\* seconds counted from its start stays armed, and an assembly that returns
\* normally did not run longer than its timeout
C17_AssemblyDeadlineStays ==
    Assembly =>
        /\ (ret.kind = "pending" /\ run.depth > 0) =>
               timer = arg.timeout - run.elapsed
        /\ ret.kind = "ok" => run.elapsed <= arg.timeout

\* the error main() met: the one the construction raised, else the one the
\* operation raised
ErrorMet == IF arg.construction # "ok" THEN arg.construction ELSE arg.outcome

\* C14: main() returns 0 when the operation succeeds, 1 after a Validation or
\* unclassified error, 2 after a Store error and 3 after a Timeout, whether
\* the error comes from the construction of the Engine or from the operation
C14_ExitCodePerKind ==
    (arg.fn = "main" /\ ret.kind = "exit") =>
        /\ ErrorMet = "ok" => ret.val = 0
        /\ ErrorMet \in {"QS001", "other"} => ret.val = 1
        /\ ErrorMet = "QS002" => ret.val = 2
        /\ ErrorMet = "QS003" => ret.val = 3

\* the connections the with-bodies of the caller hold
Held(stk) == {stk[i].h : i \in {j \in 1..Len(stk) : stk[j].cpc = "body"}}

\* C15: a step that discards a connection because the query using it failed
\* leaves the pool empty and no connection in use, so the next acquire has to
\* create one; and a step that acquires a connection yields one that is newer
\* than every connection discarded so far
C15_NextAcquireIsFresh ==
    [][\A t \in Threads :
          /\ errored' # errored =>
                /\ pool' = <<>>
                /\ Held(stack'[t]) = {}
          /\ \A h \in Held(stack'[t]) \ Held(stack[t]) :
                /\ hstate'[h] = "open"
                /\ \A e \in errored' : h > e]_vars

\* C15 witness: a connection was discarded after a failed query and a later
\* acquire on the same Engine holds a connection created after it
C15_Witness ==
    \E t \in Threads :
        /\ errored # {}
        /\ \E h \in Held(stack[t]) : \A e \in errored : h > e /\ hstate[e] = "closed"

\* the decision reached from d by following n superseded_by pointers, 0 when
\* the chain ends before (NULL, or a row that is gone)
RECURSIVE Follow(_, _)
Follow(d, n) ==
    IF n = 0 \/ d = 0 THEN d
    ELSE IF Exists(d) THEN Follow(decisions[d].superseded_by, n - 1) ELSE 0

\* C16: following superseded_by pointers from any decision never comes back
\* to a decision already visited
C16_SupersededByAcyclic ==
    \A d \in DecisionIds : \A i \in 0..MaxDecisions : \A n \in 1..MaxDecisions :
        Follow(d, i) # 0 => Follow(Follow(d, i), n) # Follow(d, i)

\* C16 witness: a chain of two pointers, built by superseding a decision and
\* then the decision that replaced it
C16_Witness ==
    \E d \in DecisionIds :
        /\ Exists(d)
        /\ Follow(d, 1) # 0
        /\ Follow(d, 2) # 0
        /\ Exists(Follow(d, 2))

\* the calls named by the claim on audit records
AuditedCalls ==
    {"query_by_domain", "query_by_tags", "query_recent", "get_active_experiments",
     "get_pending_ceo_reviews", "get_decisions", "get_invariants",
     "get_assumptions", "get_challenged_assumptions", "get_spike_reports",
     "get_violations", "get_statistics", "build_context"}

\* the audit inserts made for calls of m: the rows committed and, when the
\* call that just ended lost its insert, that one
AuditAttempts(m, r, rows) ==
    Cardinality({i \in 1..Len(rows) : rows[i].query_type = m})
    + (IF r.lf THEN 1 ELSE 0)

\* C18: when a public call made by the caller ends, by returning or by
\* raising, exactly one audit insert was attempted for it
C18_OneAuditInsertPerCall ==
    [][\A t \in Threads :
          (lastRet'[t] # lastRet[t] /\ Depth(t) = 1
              /\ lastRet'[t].m \in AuditedCalls)
            => AuditAttempts(lastRet'[t].m, lastRet'[t], audit') = 1]_vars

\* C19: when the try block of build_context ended with a Validation, Store,
\* Timeout or Configuration error, that error is what reaches the caller,
\* after the audit insert was attempted
C19_AssemblerErrorUnchanged ==
    \A t \in Threads :
        (lastRet[t].m = "build_context"
            /\ lastRet[t].out.kind \in {"QS001", "QS002", "QS003", "QS004"})
          => /\ lastRet[t].delivered = lastRet[t].out
             /\ AuditAttempts("build_context", lastRet[t], audit) = 1

\* C20: a Validation error is raised in a Query Method only while the method
\* holds no connection and has read nothing, and the pool is as it was when
\* the call began
C20_ValidationBeforeAcquire ==
    [][\A t \in Threads :
          (Depth(t) > 0 /\ TopIs(t, "call") /\ Top(t).m # "build_context"
              /\ exc[t] = NoExc /\ exc'[t] = "QS001")
            => /\ Top(t).cpc = "none"
               /\ Top(t).h = 0
               /\ Top(t).rd = <<>>]_vars

\* the token estimate of build_context after Tier 2, and its capped budget
EstimateAfterTier2 == (arg.golden \div 4) + SumTokens(arg.tier2)
Budget == IF arg.max_tokens > MAX_TOKENS THEN MAX_TOKENS ELSE arg.max_tokens

\* the number of filler items a loop appends that stops once the estimate is
\* at or above the budget
RECURSIVE FillerCount(_, _)
FillerCount(rows, estimate) ==
    IF rows = <<>> \/ estimate >= Budget THEN 0
    ELSE 1 + FillerCount(Tail(rows), estimate + (Head(rows) \div 4))

\* C21: the filler tier is emitted whenever the estimate after Tier 2 is below
\* max_tokens, and recent items are appended one at a time until the estimate
\* reaches max_tokens or the items run out
C21_FillerUntilBudget ==
    (arg.fn = "build_context" /\ ret.kind = "ok") =>
        /\ EstimateAfterTier2 < Budget => HasPart("TIER 3")
        /\ Cardinality({i \in 1..Len(ret.val) : ret.val[i].s = "recent"})
               = FillerCount(arg.recent, EstimateAfterTier2)


\* the returned items of find_similar_failures and, per item, its learning,
\* the two word sets and the numerator and denominator of its Jaccard ratio
SimilarItems == ret.val.items
ItemRow(it) == arg.store[it.id]
ItemInter(it) == TaskWords(arg.task) \cap FailureWords(ItemRow(it))
ItemUnion(it) == TaskWords(arg.task) \cup FailureWords(ItemRow(it))
SimilarReturned == arg.fn = "find_similar_failures" /\ ret.kind = "ok"

\* what the statement of C22 and its amended form have in common: only
\* failures at or above the threshold, at most 5 keywords from both word
\* sets, ordered by annotated ratio descending, nothing and no store read
\* for a task without a word longer than 3 characters
SimilarCommon ==
    /\ \A k \in 1..Len(SimilarItems) :
          LET it == SimilarItems[k]
          IN /\ ItemRow(it).type = "failure"
             /\ 100 * Cardinality(ItemInter(it))
                    >= arg.threshold * Cardinality(ItemUnion(it))
             /\ Len(it.matched_keywords) <= 5
             /\ Range(it.matched_keywords) \subseteq ItemInter(it)
             /\ \A j \in 1..Len(SimilarItems) :
                    j < k => SimilarItems[j].similarity >= it.similarity
    /\ (\A w \in arg.task : WordLen(w) <= 3) =>
           (SimilarItems = <<>> /\ ret.val.reads = 0)

\* the learnings find_similar_failures keeps before sorting and cutting
KeptLearnings ==
    {i \in 1..Len(arg.store) :
        /\ arg.store[i].type = "failure"
        /\ arg.store[i].days <= 30
        /\ FailureWords(arg.store[i]) # {}
        /\ 100 * Cardinality(TaskWords(arg.task) \cap FailureWords(arg.store[i]))
               >= arg.threshold
                    * Cardinality(TaskWords(arg.task) \cup FailureWords(arg.store[i]))}

C23_OverflowOnlyByStaleTest ==
    arg.fn = "shared" =>
        \A t \in SharingThreads :
            lastRet[t].m = "pooled" =>
                /\ lastRet[t].seen < MAX_CONNECTION_POOL_SIZE
                /\ lastRet[t].after > MAX_CONNECTION_POOL_SIZE
                       => lastRet[t].after > lastRet[t].seen + 1

\* both threads' cap tests read 4 pooled handles, both appended, and the
\* pool holds 6
C23_Witness ==
    /\ arg.fn = "shared"
    /\ Len(pool) > MAX_CONNECTION_POOL_SIZE
    /\ \A t \in SharingThreads :
          lastRet[t].m = "pooled" /\ lastRet[t].seen = MAX_CONNECTION_POOL_SIZE - 1


\* thread t's step entered a with-block and was handed connection h
Yielded(t, h) ==
    /\ Len(stack'[t]) = Len(stack[t]) + 1
    /\ stack'[t][Len(stack'[t])].cpc = "body"
    /\ stack'[t][Len(stack'[t])].h = h

\* h did not exist before the step and is open after it
FreshlyCreated(h) == hstate[h] = "unborn" /\ hstate'[h] = "open"

\* "SELECT 1" answers on h: it is open and the store answers on it
ProbePasses(h) == hstate[h] = "open" /\ h \notin sick

\* C24: acquire never yields a pooled handle that failed the liveness probe.
\* With an empty pool the handle yielded is freshly created; the handle
\* popped from a non-empty pool is the newest one and, when the probe
\* passes, it is yielded as it is; when the probe fails it is closed, and
\* the handle yielded is freshly created.
C24_AcquireProbesPooledHandle ==
    [][\A t \in Threads : \A h \in Handles :
          Yielded(t, h) =>
              IF pool = <<>>
              THEN FreshlyCreated(h) /\ pool' = pool
              ELSE LET old == pool[Len(pool)]
                   IN /\ pool' = SubSeq(pool, 1, Len(pool) - 1)
                      /\ IF ProbePasses(old)
                         THEN h = old /\ hstate' = hstate
                         ELSE /\ hstate'[old] = "closed"
                              /\ FreshlyCreated(h)]_vars

\* a with-block holds an open handle created after a pooled handle on
\* which the store had stopped answering, and that handle is closed
C24_Witness ==
    /\ arg.fn = "none"
    /\ TopIs(1, "conn")
    /\ Top(1).cpc = "body"
    /\ hstate[Top(1).h] = "open"
    /\ \E s \in sick : hstate[s] = "closed" /\ s < Top(1).h /\ s \notin Range(pool)


\* C25: after any sequence of create_assumption, update_assumption,
\* verify_assumption and challenge_assumption operations the stored
\* confidence of every assumption lies in [0, 1].
C25_ConfidenceInUnitInterval ==
    arg.fn = "assumptions" =>
        \A i \in DOMAIN assumptions :
            /\ assumptions[i].confidence.d > 0
            /\ 0 <= assumptions[i].confidence.n
            /\ assumptions[i].confidence.n <= assumptions[i].confidence.d

\* two assumptions: one whose confidence was sent as 1.5 and is stored as
\* 1, one verified once and challenged twice, at 1/3
C25_Witness ==
    /\ arg.fn = "assumptions"
    /\ Len(assumptions) = 2
    /\ assumptions[1].confidence = Fraction(10, 10)
    /\ assumptions[1].verified_count = 0
    /\ assumptions[1].challenged_count = 0
    /\ assumptions[1].status = "active"
    /\ assumptions[2].confidence = Fraction(1, 3)
    /\ assumptions[2].challenged_count = 2

\* C27: immediately after a verify_assumption call that leaves an
\* assumption's stored verified_count at 3 or more, that assumption's status
\* is 'verified'.
C27_VerifiedAtThree ==
    (arg.fn = "assumptions" /\ ret.kind = "ok" /\ ret.val.op = "verify"
        /\ ret.val.code = 200) =>
            (assumptions[ret.val.id].verified_count >= 3
                => assumptions[ret.val.id].status = "verified")


\* how often connection h is in the pool, and how many with-bodies hold it
TimesPooled(h) == Cardinality({i \in DOMAIN pool : pool[i] = h})
TimesHeld(h) ==
    Cardinality({p \in {<<t, j>> : t \in DOMAIN stack, j \in 1..MaxNest + 2} :
                    /\ p[2] <= Len(stack[p[1]])
                    /\ stack[p[1]][p[2]].cpc = "body"
                    /\ stack[p[1]][p[2]].h = h})

\* C26: at every point of a run each connection the Engine created is in
\* exactly one place: held by one caller, in the pool once, or closed.
C26_HandleInOnePlace ==
    arg.fn \in {"none"} =>
        \A h \in Handles :
            hstate[h] # "unborn" =>
                \/ hstate[h] = "open" /\ TimesHeld(h) = 1 /\ TimesPooled(h) = 0
                \/ hstate[h] = "open" /\ TimesHeld(h) = 0 /\ TimesPooled(h) = 1
                \/ hstate[h] = "closed" /\ TimesHeld(h) = 0 /\ TimesPooled(h) = 0


\* C28: for any interleaving of connect, disconnect and broadcast on the
\* ConnectionManager, each socket is removed from active_connections at most
\* once and no removal fails: an endpoint can disconnect a socket that a
\* broadcast dropped as dead, and two overlapping broadcasts that found the
\* same dead socket both complete.
C28_NoRemovalFails ==
    (arg.fn = "manager" /\ manager # NoManager) =>
        /\ \A s \in Sockets : manager.removals[s] <= 1
        /\ \A s \in Sockets : manager.endpoint[s] # "ValueError"
        /\ \A b \in Broadcasts : manager.task[b].pc # "ValueError"



\* table tb holds rows inserted after the last update broadcast for it
Unannounced(tb) ==
    arg.fn = "monitor" /\ monitor # NoMonitor /\ monitor.new[tb] > 0

\* C29: whenever rows are inserted into a watched table, some later polling
\* round of monitor_changes broadcasts an update for that table, whatever
\* deletions from that table happened before or between the inserts.
C29_InsertsAreBroadcast ==
    \A tb \in Watched : Unannounced(tb) ~> ~Unannounced(tb)


\* C30: after any sequence of create_decision, supersede_decision,
\* update_decision and delete_decision operations, every stored decision with
\* a non-null superseded_by points to a decision that still exists.
C30_SupersededByExists ==
    arg.fn = "dashboard" =>
        \A d \in DecisionIds :
            (Exists(d) /\ decisions[d].superseded_by # 0)
                => Exists(decisions[d].superseded_by)
====
